---- MODULE Spec2Model ----
(***************************************************************************)
(* AG-UI streaming of one turn: the two protocol bridges of                *)
(* yahoo_dsp_agent_sdk/agui_bridge.py and the three generators that drive  *)
(* them (Agent.stream_with_agui_bridge, AgentLangchain.stream_with_agui_   *)
(* bridge and the stream_agui_response generator of src/agent/main.py).    *)
(* Further down: the MCP connection manager of yahoo_dsp_agent_sdk/mcps.py *)
(* and the turn-level retry of Agent.invoke.                               *)
(*                                                                         *)
(* Python None is modelled as None (0) for identifiers and as NoResult     *)
(* ("None") for payloads.  str(uuid.uuid4()) is the next value of the      *)
(* counter uuids.  A string buffer is the sequence of the chunks appended  *)
(* to it.                                                                  *)
(***************************************************************************)
EXTENDS Integers, Sequences, FiniteSets, TLC

\* Bound: number of raw events the runtime produces in one turn.
MaxRawEvents == 3

\* Bound: number of distinct values id(event) takes for on_tool_start events.
MaxObjectIds == 2

\* Bound: largest max_retries an MCPManager is constructed with.
MaxRetries == 3

\* Bound: number of SDK calls (invoke, call_tool, ...) made on one manager.
MaxCalls == 2

\* Bound: number of tools the MCP server lists.
MaxTools == 3

\* Bound: number of parameters in the arguments of a tool call.
MaxParams == 2

\* Bound: number of argument chunks buffered for an open tool call.
MaxChunks == 2

\* Bound: number of tool invocations in one run of the runtime.
MaxToolCalls == 2

None == 0

NoResult == "None"

\* f"tool_{id(event)}" lives in a namespace disjoint from the uuids.
ToolObjectBase == 10

StructuredValues == {"r1", "r2"}

VARIABLES
    kind,                      \* which generator runs the turn
    pc,                        \* position of the generator
    emitted,                   \* wire events the consumer has received
    pending,                   \* events returned by the bridge, not yet yielded
    bridge,                    \* the bridge object's fields
    uuids,                     \* number of uuid.uuid4() calls so far
    raw_count,                 \* raw events consumed from the runtime
    structured_output_config,  \* Agent has a structured_output_config
    extraction,                \* runtime structured_output_async: not_run/ok/failed
    structured_result,         \* local structured_result of the generator
    raised,                    \* an exception was raised inside the generator
    mcp,                       \* the MCPManager object's fields
    agent,                     \* the Agent object's fields and its runtime
    mpc,                       \* position inside the running SDK call
    op,                        \* the SDK call in progress and its arguments
    conn,                      \* _create_client_with_retry: attempt and caller
    attempt,                   \* Agent.invoke: loop variable attempt
    oplog,                     \* side effects of the call in progress, in order
    outcome,                   \* how the last finished call ended
    handles,                   \* MCP clients created so far
    ncalls,                    \* SDK calls started so far
    replaced,                  \* handles a reconnect has replaced
    last_use,                  \* the latest use of a handle by a tool call or turn
    server_tools,              \* the tools the MCP server lists
    headers,                   \* headers_factory calls and the headers in use
    call,                      \* one direct call of call_mcp_tool
    conv,                      \* one direct call of a bridge's event conversion
    inv                        \* one direct call of Agent._do_invoke

stream_vars == <<kind, pc, emitted, pending, bridge, uuids, raw_count,
                 structured_output_config, extraction, structured_result, raised>>

mcp_vars == <<mcp, agent, mpc, op, conn, attempt, oplog, outcome, handles,
              ncalls, replaced, last_use, server_tools, headers, call, conv, inv>>

vars == <<stream_vars, mcp_vars>>

Kinds == {"strands", "langchain", "entrypoint"}

Terminal == {"RUN_FINISHED", "RUN_ERROR"}

Event(t, mid, tid, d) ==
    [type |-> t, message_id |-> mid, tool_call_id |-> tid, data |-> d]

\* What a bridge call leaves behind: the bridge's fields, the events it
\* returned, the uuid4() calls it made, and whether it raised instead.
Out(b, evs, used) ==
    [bridge |-> b, events |-> evs, used |-> used, raised |-> FALSE]

Raise(b) == [bridge |-> b, events |-> <<>>, used |-> 0, raised |-> TRUE]

(***************************************************************************)
(* Bridge methods shared, line for line, by both bridge classes.           *)
(***************************************************************************)
BridgeInit ==
    [current_message_id |-> None, current_tool_call_id |-> None,
     tool_args_buffer |-> <<>>, tool_name |-> NoResult]

start_run == Event("RUN_STARTED", None, None, "")

\* Variant: the START event is returned but the bridge does not record the id.
start_message_NoId(b, u) ==
    Out(b, <<Event("TEXT_MESSAGE_START", u, None, "assistant")>>, 1)

start_message(b, u) ==
    Out([b EXCEPT !.current_message_id = u],
        <<Event("TEXT_MESSAGE_START", u, None, "assistant")>>, 1)

add_text_content(b, text) ==
    Event("TEXT_MESSAGE_CONTENT", b.current_message_id, None, text)

end_message(b) == Event("TEXT_MESSAGE_END", b.current_message_id, None, "")

finish_run(result) == Event("RUN_FINISHED", None, None, result)

error_event == Event("RUN_ERROR", None, None, "error")

(***************************************************************************)
(* StrandsToAGUIBridge                                                     *)
(***************************************************************************)
\* TOOL_CALL_START carries parent_message_id in message_id.
Strands_start_tool_call(b, tool_name, u) ==
    Out([b EXCEPT !.current_tool_call_id = u, !.tool_name = tool_name,
                  !.tool_args_buffer = <<>>],
        <<Event("TOOL_CALL_START", b.current_message_id, u, tool_name)>>, 1)

\* Variant: the ARGS event is returned but the chunk is not buffered.
Strands_add_tool_args_NoBuffer(b, args_chunk) ==
    Out(b, <<Event("TOOL_CALL_ARGS", None, b.current_tool_call_id, args_chunk)>>, 0)

Strands_add_tool_args(b, args_chunk) ==
    Out([b EXCEPT !.tool_args_buffer = Append(@, args_chunk)],
        <<Event("TOOL_CALL_ARGS", None, b.current_tool_call_id, args_chunk)>>, 0)

\* Variant: closing a tool call also resets the message id.
Strands_end_tool_call_ClearsMessage(b, result) ==
    Out([b EXCEPT !.current_tool_call_id = None, !.tool_args_buffer = <<>>,
                  !.tool_name = NoResult, !.current_message_id = None],
        <<Event("TOOL_CALL_RESULT", b.current_message_id,
                b.current_tool_call_id, result),
          Event("TOOL_CALL_END", None, b.current_tool_call_id, "")>>, 0)

Strands_end_tool_call(b, result) ==
    Out([b EXCEPT !.current_tool_call_id = None, !.tool_args_buffer = <<>>,
                  !.tool_name = NoResult],
        <<Event("TOOL_CALL_RESULT", b.current_message_id,
                b.current_tool_call_id, result),
          Event("TOOL_CALL_END", None, b.current_tool_call_id, "")>>, 0)

\* A raw Strands event: which keys it has and what they hold.
StrandsRaw(is_dict, has_data, has_delta, has_event, block, has_start, has_toolUse, payload) ==
    [is_dict |-> is_dict, has_data |-> has_data, has_delta |-> has_delta,
     has_event |-> has_event, block |-> block, has_start |-> has_start,
     has_toolUse |-> has_toolUse, payload |-> payload]

StrandsEvents ==
    { StrandsRaw(FALSE, FALSE, FALSE, FALSE, "", FALSE, FALSE, ""),
      StrandsRaw(TRUE, TRUE, TRUE, FALSE, "", FALSE, FALSE, "a"),
      StrandsRaw(TRUE, FALSE, FALSE, FALSE, "", FALSE, FALSE, ""),
      StrandsRaw(TRUE, FALSE, FALSE, TRUE, "contentBlockStart", TRUE, TRUE, "t1"),
      StrandsRaw(TRUE, FALSE, FALSE, TRUE, "contentBlockStart", TRUE, FALSE, ""),
      StrandsRaw(TRUE, FALSE, FALSE, TRUE, "contentBlockStart", FALSE, FALSE, ""),
      StrandsRaw(TRUE, FALSE, FALSE, TRUE, "contentBlockDelta", FALSE, TRUE, "x"),
      StrandsRaw(TRUE, FALSE, FALSE, TRUE, "contentBlockDelta", FALSE, TRUE, ""),
      StrandsRaw(TRUE, FALSE, FALSE, TRUE, "contentBlockDelta", FALSE, FALSE, ""),
      StrandsRaw(TRUE, FALSE, FALSE, TRUE, "contentBlockStop", FALSE, FALSE, ""),
      StrandsRaw(TRUE, FALSE, FALSE, TRUE, "messageStop", FALSE, FALSE, "") }

convert_strands_event(b, e, u) ==
    IF ~e.is_dict THEN Out(b, <<>>, 0)
    ELSE IF e.has_data /\ e.has_delta
        THEN Out(b, <<add_text_content(b, e.payload)>>, 0)
    ELSE IF e.has_event THEN
        IF e.block = "contentBlockStart" THEN
            IF ~e.has_start THEN Raise(b)
            ELSE IF e.has_toolUse THEN Strands_start_tool_call(b, e.payload, u)
            ELSE Out(b, <<>>, 0)
        ELSE IF e.block = "contentBlockDelta" THEN
            IF e.has_toolUse /\ b.current_tool_call_id # None /\ e.payload # ""
                THEN Strands_add_tool_args(b, e.payload)
                ELSE Out(b, <<>>, 0)
        ELSE IF e.block = "contentBlockStop" /\ b.current_tool_call_id # None
            THEN Strands_end_tool_call(b, "Tool executed successfully")
        ELSE Out(b, <<>>, 0)
    ELSE Out(b, <<>>, 0)

(***************************************************************************)
(* LangChainToAGUIBridge (its objects have no tool_args_buffer and no      *)
(* tool_name: those two fields of the record stay as constructed).         *)
(***************************************************************************)
LangChain_start_tool_call(b, tool_name, tool_call_id, u) ==
    LET id == IF tool_call_id # None THEN tool_call_id ELSE u
    IN  Out([b EXCEPT !.current_tool_call_id = id],
            <<Event("TOOL_CALL_START", b.current_message_id, id, tool_name)>>,
            IF tool_call_id # None THEN 0 ELSE 1)

LangChain_add_tool_args(b, args_chunk) ==
    Event("TOOL_CALL_ARGS", None, b.current_tool_call_id, args_chunk)

LangChain_end_tool_call(b, result) ==
    Out([b EXCEPT !.current_tool_call_id = None],
        <<Event("TOOL_CALL_RESULT", b.current_message_id,
                b.current_tool_call_id, result),
          Event("TOOL_CALL_END", None, b.current_tool_call_id, "")>>, 0)

\* One block of a list-valued chunk content.
Block(is_dict, type, text) == [is_dict |-> is_dict, type |-> type, text |-> text]

\* A raw astream_events event.  content_kind says what chunk.content is:
\* "str", "list", or "absent" (the chunk has no content attribute).
\* payload is the tool input (on_tool_start) or output (on_tool_end);
\* "" stands for an empty input mapping / empty output.
\* text is the string content (on_chat_model_stream) or the tool name.
LangChainRaw(is_dict, event, has_data, content_kind, text, blocks, payload) ==
    [is_dict |-> is_dict, event |-> event, has_data |-> has_data,
     content_kind |-> content_kind, text |-> text, blocks |-> blocks,
     payload |-> payload]

LangChainEvents ==
    { LangChainRaw(FALSE, "", FALSE, "absent", "", <<>>, ""),
      LangChainRaw(TRUE, "on_chat_model_stream", TRUE, "str", "a", <<>>, ""),
      LangChainRaw(TRUE, "on_chat_model_stream", TRUE, "str", "", <<>>, ""),
      LangChainRaw(TRUE, "on_chat_model_stream", TRUE, "absent", "", <<>>, ""),
      LangChainRaw(TRUE, "on_chat_model_stream", TRUE, "list", "",
                   <<Block(TRUE, "text", "b"), Block(TRUE, "tool_use", ""),
                     Block(FALSE, "", ""), Block(TRUE, "text", "")>>, ""),
      LangChainRaw(TRUE, "on_chat_model_stream", FALSE, "absent", "", <<>>, ""),
      LangChainRaw(TRUE, "on_tool_start", TRUE, "absent", "t1", <<>>, "q"),
      LangChainRaw(TRUE, "on_tool_start", TRUE, "absent", "t1", <<>>, ""),
      LangChainRaw(TRUE, "on_tool_start", FALSE, "absent", "t1", <<>>, ""),
      LangChainRaw(TRUE, "on_tool_end", TRUE, "absent", "", <<>>, "out"),
      LangChainRaw(TRUE, "on_tool_end", TRUE, "absent", "", <<>>, ""),
      LangChainRaw(TRUE, "on_tool_end", FALSE, "absent", "", <<>>, ""),
      LangChainRaw(TRUE, "on_chain_start", TRUE, "absent", "", <<>>, "") }

RECURSIVE TextBlocks(_, _)
\* for block in content.content: the text events of the text blocks.
TextBlocks(b, blocks) ==
    IF blocks = <<>> THEN <<>>
    ELSE LET block == Head(blocks)
         IN  (IF block.is_dict /\ block.type = "text" /\ block.text # ""
                 THEN <<add_text_content(b, block.text)>> ELSE <<>>)
             \o TextBlocks(b, Tail(blocks))

\* tool_id is f"tool_{id(event)}"; u is the next uuid.
process_stream_event(b, e, tool_id, u) ==
    IF ~e.is_dict THEN Raise(b)
    ELSE IF e.event = "on_chat_model_stream" THEN
        IF ~e.has_data THEN Raise(b)
        ELSE IF e.content_kind = "str" /\ e.text # ""
            THEN Out(b, <<add_text_content(b, e.text)>>, 0)
        ELSE IF e.content_kind = "list" /\ e.blocks # <<>>
            THEN Out(b, TextBlocks(b, e.blocks), 0)
        ELSE Out(b, <<>>, 0)
    ELSE IF e.event = "on_tool_start" THEN
        IF ~e.has_data THEN Raise(b)
        ELSE
            LET closed == IF b.current_tool_call_id # None
                          THEN LangChain_end_tool_call(b, "Tool executed successfully")
                          ELSE Out(b, <<>>, 0)
                started == LangChain_start_tool_call(closed.bridge, e.text, tool_id, u)
                args == IF e.payload # ""
                        THEN <<LangChain_add_tool_args(started.bridge, e.payload)>>
                        ELSE <<>>
            IN  Out(started.bridge, closed.events \o started.events \o args,
                    started.used)
    ELSE IF e.event = "on_tool_end" THEN
        IF b.current_tool_call_id # None THEN
            IF ~e.has_data THEN Raise(b)
            ELSE LangChain_end_tool_call(b, e.payload)
        ELSE Out(b, <<>>, 0)
    ELSE Out(b, <<>>, 0)

(***************************************************************************)
(* The generators.  A generator is suspended at each yield; emitted is     *)
(* what its consumer has received so far.                                  *)
(***************************************************************************)
\* MCPManager.__init__: the configuration is stored, no client is created.
MCPManager_init(use_stdio, mcp_server_path, gateway_url, headers_factory, tool_filter_tags, max_retries, retry_delay) ==
    [use_stdio |-> use_stdio, mcp_server_path |-> mcp_server_path,
     gateway_url |-> gateway_url, headers_factory |-> headers_factory,
     tool_tags |-> tool_filter_tags,
     max_retries |-> max_retries, retry_delay |-> retry_delay,
     client |-> None]

\* Agent.__init__: the runtime (self.agent) is built once over the tools
\* given; tools_handle is the MCP client those tools are bound to (None when
\* they are local tools); instance counts the uuid suffixes drawn for
\* _current_agent_id; mcp_connection_error is agent.state's flag.
Agent_init(mcp_manager, tools_handle, structured_output_schema) ==
    [mcp_manager |-> mcp_manager, tools_handle |-> tools_handle,
     instance |-> 0, mcp_connection_error |-> FALSE,
     structured_output_config |-> structured_output_schema]

\* No user query: the call in progress is not Agent.invoke.
NoQuery == "none"

NoOp == [name |-> "none", tags |-> <<>>, use_default |-> TRUE, query |-> NoQuery]

\* A result of mcp_client.call_tool_sync: the call raises an exception with
\* message msg, or returns a mapping (status; content msg; structuredContent)
\* or something that is not a mapping.  A message is its sequence of words.
ClientResult(shape, status, has_content, msg, structured) ==
    [kind |-> shape, status |-> status, has_content |-> has_content, msg |-> msg,
     structured |-> structured]

NoClientResult == ClientResult("none", "missing", FALSE, <<>>, "missing")

NoOutcome == [status |-> "none", type |-> "none", msg |-> "none", attempts |-> 0,
              response |-> 0, structured |-> NoResult, tools |-> <<>>,
              result |-> NoClientResult]

NoUse == [by |-> "none", handle |-> None, stale |-> FALSE]

\* The arguments parameter of call_mcp_tool: None, or a mapping, given by
\* the set of its parameter names.
Mapping(keys) == [given |-> TRUE, keys |-> keys]

NoArguments == [given |-> FALSE, keys |-> {}]

\* No direct call of call_mcp_tool is observed.
NoCall == [arguments |-> NoArguments, result |-> NoClientResult, done |-> FALSE,
           passed |-> NoArguments, outcome |-> [type |-> "none", msg |-> "none"]]

\* No direct call of convert_strands_event / process_stream_event is
\* observed.
NoConversion == [kind |-> "none", bridge |-> BridgeInit, event |-> NoResult,
                 tool_id |-> None, uuid |-> None, done |-> FALSE,
                 out |-> Out(BridgeInit, <<>>, 0)]

\* No direct call of Agent._do_invoke is observed.
NoInvocation == [flag |-> FALSE, run |-> [results |-> <<>>, raises |-> FALSE],
                 done |-> FALSE, out |-> [flag |-> FALSE, type |-> "none"]]

\* No network connection was attempted: headers_factory was never called
\* (calls), nothing was passed to setup_stremeable_mcp_client (used).
NoHeaders == [calls |-> 0, attempts |-> 0, used |-> None]

\* No SDK call is in progress and none has finished.
Quiescent ==
    /\ mpc = "idle"
    /\ op = NoOp
    /\ conn = [attempt |-> 0, ret |-> "none", old |-> None]
    /\ attempt = 0
    /\ oplog = <<>>
    /\ outcome = NoOutcome
    /\ ncalls = 0
    /\ replaced = {}
    /\ last_use = NoUse
    /\ headers = NoHeaders
    /\ call = NoCall
    /\ conv = NoConversion
    /\ inv = NoInvocation

\* The manager and the agent while only a stream is observed: a manager
\* with the constructor's defaults and an agent over local tools.
McpPinned ==
    /\ mcp = MCPManager_init(FALSE, TRUE, TRUE, FALSE, <<>>, 3, 1)
    /\ agent = Agent_init(FALSE, None, FALSE)
    /\ handles = 0
    /\ server_tools = <<>>
    /\ Quiescent

Init ==
    /\ McpPinned
    /\ kind \in Kinds
    /\ pc = "init"
    /\ emitted = <<>>
    /\ pending = <<>>
    /\ bridge = BridgeInit
    /\ uuids = 0
    /\ raw_count = 0
    /\ structured_output_config \in BOOLEAN
    /\ extraction = "not_run"
    /\ structured_result = NoResult
    /\ raised = FALSE

\* yield encoder.encode(bridge.start_run(...))
StartRun(k) ==
    /\ kind = k /\ pc = "init"
    /\ emitted' = Append(emitted, start_run)
    /\ pc' = "run_started"
    /\ UNCHANGED <<kind, pending, bridge, uuids, raw_count,
                   structured_output_config, extraction, structured_result, raised>>
    /\ UNCHANGED mcp_vars

\* yield encoder.encode(bridge.start_message())
StartMessage(k) ==
    /\ kind = k /\ pc = "run_started"
    /\ LET r == start_message(bridge, uuids + 1)
       IN  /\ bridge' = r.bridge
           /\ emitted' = emitted \o r.events
           /\ uuids' = uuids + r.used
    /\ pc' = "streaming"
    /\ UNCHANGED <<kind, pending, raw_count, structured_output_config,
                   extraction, structured_result, raised>>
    /\ UNCHANGED mcp_vars

\* for agui_event in <bridge events>: yield encoder.encode(agui_event)
YieldPending(k) ==
    /\ kind = k /\ pc \in {"streaming", "end_message"}
    /\ pending # <<>>
    /\ emitted' = Append(emitted, Head(pending))
    /\ pending' = Tail(pending)
    /\ UNCHANGED <<kind, pc, bridge, uuids, raw_count,
                   structured_output_config, extraction, structured_result, raised>>
    /\ UNCHANGED mcp_vars

\* Variant: the handler logs the exception and yields nothing.
CatchException_Silent ==
    /\ emitted' = emitted
    /\ pc' = "done"

\* Variant: the handler closes the open message before reporting the error.
CatchException_ClosesMessage ==
    /\ emitted' = emitted \o <<end_message(bridge), error_event>>
    /\ pc' = "done"

\* except Exception as e: yield encoder.encode(bridge.error_event(str(e)))
CatchException ==
    /\ emitted' = Append(emitted, error_event)
    /\ pc' = "done"

\* No handler: the exception leaves the generator and reaches its consumer.
PropagateException ==
    /\ emitted' = emitted
    /\ pc' = "raised"

(***************************************************************************)
(* The connection-failure hook of the runtime                              *)
(***************************************************************************)
\* MCP_CONNECTION_ERROR_INDICATORS, each as its sequence of words.
MCP_CONNECTION_ERROR_INDICATORS ==
    { <<"connection", "closed">>, <<"connection", "refused">>,
      <<"peer", "closed", "connection">>, <<"incomplete", "chunked", "read">>,
      <<"client", "session", "is", "not", "running">>, <<"unable", "to", "connect">>,
      <<"all", "connection", "attempts", "failed">>, <<"connecterror">>,
      <<"client", "initialization", "failed">>, <<"mcp", "error">>,
      <<"mcpconnectionerror">>, <<"mcperror">>, <<"remote", "protocol", "error">>,
      <<"connection", "to", "the", "mcp", "server", "was", "closed">> }

\* The messages a failing tool call carries.
Messages ==
    { <<"Connection", "closed">>, <<"client", "session", "is", "not", "running">>,
      <<"MCP", "error">>, <<"tool", "not", "found">>, <<"connection", "timeout">> }

\* str.lower(), word by word.
lower_word(w) ==
    CASE w = "Connection" -> "connection"
      [] w = "MCP" -> "mcp"
      [] OTHER -> w

lower(msg) == [i \in 1..Len(msg) |-> lower_word(msg[i])]

\* indicator in text
contains(text, indicator) ==
    \E i \in 1..(Len(text) - Len(indicator) + 1) :
        SubSeq(text, i, i + Len(indicator) - 1) = indicator

\* any(indicator in str(...).lower() for indicator in MCP_CONNECTION_ERROR_INDICATORS)
has_indicator(msg) ==
    \E indicator \in MCP_CONNECTION_ERROR_INDICATORS : contains(lower(msg), indicator)

\* AgentHookProvider._detect_mcp_error: a falsy result (<<>>) is not
\* inspected; any other is searched, lower-cased, for an indicator.
detect_mcp_error(result) == result # <<>> /\ has_indicator(result)

\* AgentHookProvider.tool_invocation_end on agent.state["mcp_connection_error"]:
\* the flag is set when the result names a connection failure, else left.
tool_invocation_end_Overwrites(flag, result) == detect_mcp_error(result)

tool_invocation_end(flag, result) ==
    IF detect_mcp_error(result) THEN TRUE ELSE flag

\* What a tool invocation hands to the hook: no result, or a message.
ToolResults == {<<>>} \cup Messages

(***************************************************************************)
(* Agent.stream_with_agui_bridge (Strands)                                 *)
(***************************************************************************)
\* async for strands_event in self.agent.stream_async(query): one raw event
\* is converted; a conversion that raises lands in the except clause.
Strands_RawEvent ==
    /\ kind = "strands" /\ pc = "streaming" /\ pending = <<>>
    /\ raw_count < MaxRawEvents
    /\ \E e \in StrandsEvents :
          LET r == convert_strands_event(bridge, e, uuids + 1)
          IN  IF r.raised
              THEN /\ raised' = TRUE
                   /\ CatchException
                   /\ UNCHANGED <<pending, bridge, uuids>>
              ELSE /\ bridge' = r.bridge
                   /\ pending' = r.events
                   /\ uuids' = uuids + r.used
                   /\ UNCHANGED <<pc, emitted, raised>>
    /\ raw_count' = raw_count + 1
    /\ UNCHANGED <<kind, structured_output_config, extraction,
                   structured_result>>
    /\ UNCHANGED mcp_vars

\* self.agent.stream_async raises while the generator awaits its next event.
Strands_RuntimeRaises ==
    /\ kind = "strands" /\ pc = "streaming" /\ pending = <<>>
    /\ raised' = TRUE
    /\ CatchException
    /\ UNCHANGED <<kind, pending, bridge, uuids, raw_count,
                   structured_output_config, extraction, structured_result>>
    /\ UNCHANGED mcp_vars

\* A tool invocation of the streamed turn ends inside stream_async: the
\* runtime runs tool_invocation_end on its result, which may set the flag.
Strands_ToolInvocationEnd ==
    /\ kind = "strands" /\ pc = "streaming" /\ pending = <<>>
    /\ \E result \in ToolResults :
          agent' = [agent EXCEPT !.mcp_connection_error = tool_invocation_end(@, result)]
    /\ UNCHANGED <<mcp, mpc, op, conn, attempt, oplog, outcome, handles, ncalls,
                   replaced, last_use, server_tools, headers, call, conv, inv>>
    /\ UNCHANGED stream_vars

\* Variant: the generator reads the flag once the raw stream is exhausted and
\* reports a set flag as an error.
Strands_StreamEnd_ChecksFlag ==
    /\ kind = "strands" /\ pc = "streaming" /\ pending = <<>>
    /\ IF agent.mcp_connection_error
       THEN CatchException
       ELSE pc' = "fetch" /\ emitted' = emitted
    /\ UNCHANGED <<kind, pending, bridge, uuids, raw_count,
                   structured_output_config, extraction, structured_result, raised>>
    /\ UNCHANGED mcp_vars

\* The raw stream is exhausted; the generator goes on to
\* await self.get_structured_output_async().
Strands_StreamEnd ==
    /\ kind = "strands" /\ pc = "streaming" /\ pending = <<>>
    /\ pc' = "fetch"
    /\ UNCHANGED <<kind, emitted, pending, bridge, uuids, raw_count,
                   structured_output_config, extraction, structured_result, raised>>
    /\ UNCHANGED mcp_vars

\* Agent.get_structured_output_async: None without a config; otherwise the
\* runtime's structured_output_async, whose exception is swallowed into None.
get_structured_output_async ==
    /\ kind = "strands" /\ pc = "fetch"
    /\ IF ~structured_output_config
       THEN /\ structured_result' = NoResult
            /\ UNCHANGED extraction
       ELSE \/ \E v \in StructuredValues :
                 /\ extraction' = v
                 /\ structured_result' = v
            \/ /\ extraction' = "failed"
               /\ structured_result' = NoResult
    /\ pc' = "end_message"
    /\ UNCHANGED <<kind, emitted, pending, bridge, uuids, raw_count,
                   structured_output_config, raised>>
    /\ UNCHANGED mcp_vars

\* yield encoder.encode(bridge.end_message())
EndMessage(k) ==
    /\ kind = k /\ pc = "end_message" /\ pending = <<>>
    /\ emitted' = Append(emitted, end_message(bridge))
    /\ pc' = "finish_run"
    /\ UNCHANGED <<kind, pending, bridge, uuids, raw_count,
                   structured_output_config, extraction, structured_result, raised>>
    /\ UNCHANGED mcp_vars

\* Variant: finish_run is called without the result.
Strands_FinishRun_NoResult ==
    /\ kind = "strands" /\ pc = "finish_run"
    /\ emitted' = Append(emitted, finish_run(NoResult))
    /\ pc' = "done"
    /\ UNCHANGED <<kind, pending, bridge, uuids, raw_count,
                   structured_output_config, extraction, structured_result, raised>>
    /\ UNCHANGED mcp_vars

\* yield encoder.encode(bridge.finish_run(..., result=structured_result))
Strands_FinishRun ==
    /\ kind = "strands" /\ pc = "finish_run"
    /\ emitted' = Append(emitted, finish_run(structured_result))
    /\ pc' = "done"
    /\ UNCHANGED <<kind, pending, bridge, uuids, raw_count,
                   structured_output_config, extraction, structured_result, raised>>
    /\ UNCHANGED mcp_vars

(***************************************************************************)
(* AgentLangchain.stream_with_agui_bridge                                  *)
(***************************************************************************)
\* id(event) of a raw event: any address, earlier events being garbage.
ToolObjectIds == (ToolObjectBase + 1) .. (ToolObjectBase + MaxObjectIds)

LangChain_RawEvent ==
    /\ kind = "langchain" /\ pc = "streaming" /\ pending = <<>>
    /\ raw_count < MaxRawEvents
    /\ \E e \in LangChainEvents, tool_id \in ToolObjectIds :
          LET r == process_stream_event(bridge, e, tool_id, uuids + 1)
          IN  IF r.raised
              THEN /\ raised' = TRUE
                   /\ CatchException
                   /\ UNCHANGED <<pending, bridge, uuids>>
              ELSE /\ bridge' = r.bridge
                   /\ pending' = r.events
                   /\ uuids' = uuids + r.used
                   /\ UNCHANGED <<pc, emitted, raised>>
    /\ raw_count' = raw_count + 1
    /\ UNCHANGED <<kind, structured_output_config, extraction,
                   structured_result>>
    /\ UNCHANGED mcp_vars

LangChain_RuntimeRaises ==
    /\ kind = "langchain" /\ pc = "streaming" /\ pending = <<>>
    /\ raised' = TRUE
    /\ CatchException
    /\ UNCHANGED <<kind, pending, bridge, uuids, raw_count,
                   structured_output_config, extraction, structured_result>>
    /\ UNCHANGED mcp_vars

\* if bridge.current_tool_call_id: for event in bridge.end_tool_call(): yield
LangChain_StreamEnd ==
    /\ kind = "langchain" /\ pc = "streaming" /\ pending = <<>>
    /\ LET r == IF bridge.current_tool_call_id # None
                THEN LangChain_end_tool_call(bridge, "Tool executed successfully")
                ELSE Out(bridge, <<>>, 0)
       IN  /\ bridge' = r.bridge
           /\ pending' = r.events
    /\ pc' = "end_message"
    /\ UNCHANGED <<kind, emitted, uuids, raw_count,
                   structured_output_config, extraction, structured_result, raised>>
    /\ UNCHANGED mcp_vars

\* yield encoder.encode(bridge.finish_run(thread_id, run_id))
LangChain_FinishRun ==
    /\ kind = "langchain" /\ pc = "finish_run"
    /\ emitted' = Append(emitted, finish_run(NoResult))
    /\ pc' = "done"
    /\ UNCHANGED <<kind, pending, bridge, uuids, raw_count,
                   structured_output_config, extraction, structured_result, raised>>
    /\ UNCHANGED mcp_vars

(***************************************************************************)
(* invoke.stream_agui_response of src/agent/main.py: a StrandsToAGUIBridge *)
(* driven with no try/except around it.                                    *)
(***************************************************************************)
Entrypoint_RawEvent ==
    /\ kind = "entrypoint" /\ pc = "streaming" /\ pending = <<>>
    /\ raw_count < MaxRawEvents
    /\ \E e \in StrandsEvents :
          LET r == convert_strands_event(bridge, e, uuids + 1)
          IN  IF r.raised
              THEN /\ raised' = TRUE
                   /\ PropagateException
                   /\ UNCHANGED <<pending, bridge, uuids>>
              ELSE /\ bridge' = r.bridge
                   /\ pending' = r.events
                   /\ uuids' = uuids + r.used
                   /\ UNCHANGED <<pc, emitted, raised>>
    /\ raw_count' = raw_count + 1
    /\ UNCHANGED <<kind, structured_output_config, extraction,
                   structured_result>>
    /\ UNCHANGED mcp_vars

Entrypoint_RuntimeRaises ==
    /\ kind = "entrypoint" /\ pc = "streaming" /\ pending = <<>>
    /\ raised' = TRUE
    /\ PropagateException
    /\ UNCHANGED <<kind, pending, bridge, uuids, raw_count,
                   structured_output_config, extraction, structured_result>>
    /\ UNCHANGED mcp_vars

Entrypoint_StreamEnd ==
    /\ kind = "entrypoint" /\ pc = "streaming" /\ pending = <<>>
    /\ pc' = "end_message"
    /\ UNCHANGED <<kind, emitted, pending, bridge, uuids, raw_count,
                   structured_output_config, extraction, structured_result, raised>>
    /\ UNCHANGED mcp_vars

\* yield bridge.finish_run(thread_id, run_id).model_dump()
Entrypoint_FinishRun ==
    /\ kind = "entrypoint" /\ pc = "finish_run"
    /\ emitted' = Append(emitted, finish_run(NoResult))
    /\ pc' = "done"
    /\ UNCHANGED <<kind, pending, bridge, uuids, raw_count,
                   structured_output_config, extraction, structured_result, raised>>
    /\ UNCHANGED mcp_vars

\* The consumer closes the stream (aclose(), or the cancellation of the
\* task that iterates it) while the generator is suspended after its
\* first event: GeneratorExit or CancelledError is raised inside the
\* generator; neither is an Exception, so `except Exception` does not catch
\* it, there is no finally clause, and the generator ends where it stands;
\* the events not yet yielded are dropped.
Close_CaughtAsException(k) ==
    /\ kind = k /\ pc \notin {"init", "done", "raised", "closed"}
    /\ pc' = "closed"
    /\ pending' = <<>>
    /\ emitted' = Append(emitted, error_event)
    /\ UNCHANGED <<kind, bridge, uuids, raw_count, structured_output_config,
                   extraction, structured_result, raised>>
    /\ UNCHANGED mcp_vars

Close(k) ==
    /\ kind = k /\ pc \notin {"init", "done", "raised", "closed"}
    /\ pc' = "closed"
    /\ pending' = <<>>
    /\ UNCHANGED <<kind, emitted, bridge, uuids, raw_count, structured_output_config,
                   extraction, structured_result, raised>>
    /\ UNCHANGED mcp_vars

Next ==
    \/ \E k \in Kinds : StartRun(k)
    \/ \E k \in Kinds : StartMessage(k)
    \/ \E k \in Kinds : YieldPending(k)
    \/ \E k \in Kinds : EndMessage(k)
    \/ Strands_RawEvent
    \/ Strands_RuntimeRaises
    \/ Strands_ToolInvocationEnd
    \/ Strands_StreamEnd
    \/ get_structured_output_async
    \/ Strands_FinishRun
    \/ LangChain_RawEvent
    \/ LangChain_RuntimeRaises
    \/ LangChain_StreamEnd
    \/ LangChain_FinishRun
    \/ Entrypoint_RawEvent
    \/ Entrypoint_RuntimeRaises
    \/ Entrypoint_StreamEnd
    \/ Entrypoint_FinishRun
    \/ \E k \in Kinds : Close(k)

Spec == Init /\ [][Next]_vars

(***************************************************************************)
(* The MCP connection manager (yahoo_dsp_agent_sdk/mcps.py) and the        *)
(* turn-level retry of Agent.invoke (yahoo_dsp_agent_sdk/agent.py).        *)
(*                                                                         *)
(* An MCP client is a handle: the n-th client created is the integer n.    *)
(* time.sleep(d) is the entry [ev |-> "sleep", n |-> d] of oplog; delays   *)
(* are counted in units of one second.  One SDK call runs at a time (the   *)
(* SDK is synchronous); mpc is the position inside it.                     *)
(***************************************************************************)

RetryDelays == {1, 2}

TagLists == {<<>>, <<"campaign">>}

\* What the transport does when a client is started.
ConnectOutcomes == {"ok", "MCPClientInitializationError", "Exception"}

Log(ev, level, n) == [ev |-> ev, level |-> level, n |-> n, query |-> NoQuery]

Returned == [NoOutcome EXCEPT !.status = "returned"]

Raised(type, msg, attempts) ==
    [NoOutcome EXCEPT !.status = "raised", !.type = type, !.msg = msg,
                      !.attempts = attempts]

\* setup_stremeable_mcp_client / setup_local_mcp_client: start the client;
\* MCPClientInitializationError becomes MCPConnectionError, any other
\* exception becomes AgentExecutionError.
setup_mcp_client_AllRetryable(env) ==
    CASE env = "ok" -> [type |-> "client", msg |-> "none"]
      [] OTHER -> [type |-> "MCPConnectionError", msg |-> "Failed to initialize MCP client"]

setup_mcp_client(env) ==
    CASE env = "ok" -> [type |-> "client", msg |-> "none"]
      [] env = "MCPClientInitializationError" ->
            [type |-> "MCPConnectionError", msg |-> "Failed to initialize MCP client"]
      [] OTHER -> [type |-> "AgentExecutionError", msg |-> "Error initializing MCP client"]

\* MCPManager._create_client_internal
create_client_internal_AnyConfig(m, env) == setup_mcp_client(env)

create_client_internal(m, env) ==
    IF m.use_stdio
    THEN IF ~m.mcp_server_path
         THEN [type |-> "AgentExecutionError", msg |-> "mcp_server_path is required for stdio transport"]
         ELSE setup_mcp_client(env)
    ELSE IF ~m.gateway_url
         THEN [type |-> "AgentExecutionError", msg |-> "gateway_url is required for streamable-http transport"]
         ELSE setup_mcp_client(env)

\* headers = self.headers_factory() if self.headers_factory else None, and
\* the headers handed to setup_stremeable_mcp_client: reached by a network
\* attempt whose gateway_url is set.  The k-th call of the factory returns
\* the value k.
connection_headers_Cached(m, h) ==
    IF m.use_stdio \/ ~m.gateway_url THEN h
    ELSE IF ~m.headers_factory
         THEN [h EXCEPT !.used = None]
         ELSE IF h.calls = 0
              THEN [h EXCEPT !.calls = 1, !.used = 1]
              ELSE h

connection_headers(m, h) ==
    IF m.use_stdio \/ ~m.gateway_url THEN h
    ELSE IF ~m.headers_factory
         THEN [h EXCEPT !.used = None]
         ELSE [h EXCEPT !.calls = h.calls + 1, !.used = h.calls + 1]

\* One more call of setup_stremeable_mcp_client by a manager that has a
\* headers factory, a network connection attempt, is counted in attempts.
network_attempt(m, h) ==
    IF ~m.use_stdio /\ m.gateway_url /\ m.headers_factory
    THEN [h EXCEPT !.attempts = h.attempts + 1] ELSE h

\* delay = self.retry_delay * (2**attempt) in _create_client_with_retry
conn_delay_OneBased(a, retry_delay) == retry_delay * (2 ^ (a + 1))

conn_delay(a, retry_delay) == retry_delay * (2 ^ a)

\* delay = retry_delay * (2**attempt) in Agent._wait_and_reconnect
turn_delay_Constant(a, retry_delay) == retry_delay

turn_delay(a, retry_delay) == retry_delay * (2 ^ a)

\* The SDK call in progress ends: it returns or raises o.
Finish(o) ==
    /\ mpc' = "idle"
    /\ outcome' = o

\* A new SDK call starts.
Begin(name, tags, use_default) ==
    /\ mpc = "idle"
    /\ ncalls < MaxCalls
    /\ ncalls' = ncalls + 1
    /\ op' = [name |-> name, tags |-> tags, use_default |-> use_default, query |-> NoQuery]

\* Agent.invoke(query) starts.
BeginInvoke(query) ==
    /\ mpc = "idle"
    /\ ncalls < MaxCalls
    /\ ncalls' = ncalls + 1
    /\ op' = [name |-> "invoke", tags |-> <<>>, use_default |-> TRUE, query |-> query]

\* self._create_client_with_retry() is entered; ret is where its caller
\* continues, old the handle a reconnect dropped just before.
EnterConnect(ret, old) ==
    /\ mpc' = "connect"
    /\ conn' = [attempt |-> 0, ret |-> ret, old |-> old]

\* One iteration of the for loop of MCPManager._create_client_with_retry
\* (or, when range(max_retries) is exhausted, the raise after the loop).
ConnectAttempt_RetryAfterLast ==
    /\ mpc = "connect"
    /\ IF conn.attempt >= mcp.max_retries
       THEN /\ Finish(Raised("AgentExecutionError", "Failed to initialize MCP client after attempts", mcp.max_retries))
            /\ UNCHANGED <<mcp, conn, oplog, handles, replaced, headers>>
       ELSE \E env \in ConnectOutcomes :
              LET r == create_client_internal(mcp, env)
              IN  /\ headers' = network_attempt(mcp, connection_headers(mcp, headers))
                  /\ CASE r.type = "client" ->
                            /\ mcp' = [mcp EXCEPT !.client = handles + 1]
                            /\ handles' = handles + 1
                            /\ replaced' = IF conn.old # None THEN replaced \cup {conn.old} ELSE replaced
                            /\ oplog' = Append(oplog, Log("connect", "ok", conn.attempt + 1))
                            /\ mpc' = conn.ret
                            /\ UNCHANGED <<conn, outcome>>
                       [] r.type = "MCPConnectionError" ->
                            /\ oplog' = oplog \o <<Log("connect", "MCPConnectionError", conn.attempt + 1),
                                                   Log("sleep", "connect", conn_delay(conn.attempt, mcp.retry_delay))>>
                            /\ conn' = [conn EXCEPT !.attempt = conn.attempt + 1]
                            /\ UNCHANGED <<mcp, mpc, outcome, handles, replaced>>
                       [] OTHER ->
                            /\ oplog' = Append(oplog, Log("connect", "AgentExecutionError", conn.attempt + 1))
                            /\ Finish(Raised("AgentExecutionError", r.msg, 0))
                            /\ UNCHANGED <<mcp, conn, handles, replaced>>
    /\ UNCHANGED <<agent, op, attempt, ncalls, last_use>>
    /\ UNCHANGED <<stream_vars, call, conv, inv, server_tools>>

ConnectAttempt ==
    /\ mpc = "connect"
    /\ IF conn.attempt >= mcp.max_retries
       THEN /\ Finish(Raised("AgentExecutionError", "Failed to initialize MCP client after attempts", mcp.max_retries))
            /\ UNCHANGED <<mcp, conn, oplog, handles, replaced, headers>>
       ELSE \E env \in ConnectOutcomes :
              LET r == create_client_internal(mcp, env)
              IN  /\ headers' = network_attempt(mcp, connection_headers(mcp, headers))
                  /\ CASE r.type = "client" ->
                            /\ mcp' = [mcp EXCEPT !.client = handles + 1]
                            /\ handles' = handles + 1
                            /\ replaced' = IF conn.old # None THEN replaced \cup {conn.old} ELSE replaced
                            /\ oplog' = Append(oplog, Log("connect", "ok", conn.attempt + 1))
                            /\ mpc' = conn.ret
                            /\ UNCHANGED <<conn, outcome>>
                       [] r.type = "MCPConnectionError" /\ conn.attempt < mcp.max_retries - 1 ->
                            /\ oplog' = oplog \o <<Log("connect", "MCPConnectionError", conn.attempt + 1),
                                                   Log("sleep", "connect", conn_delay(conn.attempt, mcp.retry_delay))>>
                            /\ conn' = [conn EXCEPT !.attempt = conn.attempt + 1]
                            /\ UNCHANGED <<mcp, mpc, outcome, handles, replaced>>
                       [] r.type = "MCPConnectionError" ->
                            /\ oplog' = Append(oplog, Log("connect", "MCPConnectionError", conn.attempt + 1))
                            /\ Finish(Raised("AgentExecutionError", "Error initializing MCP client after attempts", mcp.max_retries))
                            /\ UNCHANGED <<mcp, conn, handles, replaced>>
                       [] OTHER ->
                            /\ oplog' = Append(oplog, Log("connect", "AgentExecutionError", conn.attempt + 1))
                            /\ Finish(Raised("AgentExecutionError", r.msg, 0))
                            /\ UNCHANGED <<mcp, conn, handles, replaced>>
    /\ UNCHANGED <<agent, op, attempt, ncalls, last_use>>
    /\ UNCHANGED <<stream_vars, call, conv, inv, server_tools>>

\* MCPManager.create_client: connect on first use, else hand out the client.
create_client ==
    /\ Begin("create_client", <<>>, TRUE)
    /\ oplog' = <<>>
    /\ IF mcp.client = None
       THEN EnterConnect("return", None) /\ outcome' = NoOutcome
       ELSE Finish(Returned) /\ UNCHANGED conn
    /\ UNCHANGED <<mcp, agent, attempt, handles, replaced, last_use>>
    /\ UNCHANGED <<stream_vars, call, conv, inv, server_tools, headers>>

\* MCPManager.reconnect_all: drop the client, then connect with retry.
reconnect_all_KeepsClient ==
    /\ Begin("reconnect_all", <<>>, TRUE)
    /\ oplog' = <<Log("reconnect_all", "manager", mcp.client)>>
    /\ EnterConnect("return", mcp.client)
    /\ outcome' = NoOutcome
    /\ UNCHANGED <<mcp, agent, attempt, handles, replaced, last_use>>
    /\ UNCHANGED <<stream_vars, call, conv, inv, server_tools, headers>>

reconnect_all ==
    /\ Begin("reconnect_all", <<>>, TRUE)
    /\ oplog' = <<Log("reconnect_all", "manager", mcp.client)>>
    /\ mcp' = [mcp EXCEPT !.client = None]
    /\ EnterConnect("return", mcp.client)
    /\ outcome' = NoOutcome
    /\ UNCHANGED <<agent, attempt, handles, replaced, last_use>>
    /\ UNCHANGED <<stream_vars, call, conv, inv, server_tools, headers>>

\* create_client and reconnect_all return once the connection is made.
ReturnToCaller ==
    /\ mpc = "return"
    /\ Finish(Returned)
    /\ UNCHANGED <<mcp, agent, op, conn, attempt, oplog, handles, ncalls, replaced, last_use>>
    /\ UNCHANGED <<stream_vars, call, conv, inv, server_tools, headers>>

\* MCPManager.stop
stop ==
    /\ Begin("stop", <<>>, TRUE)
    /\ oplog' = <<>>
    /\ mcp' = [mcp EXCEPT !.client = None]
    /\ Finish(Returned)
    /\ UNCHANGED <<agent, conn, attempt, handles, replaced, last_use>>
    /\ UNCHANGED <<stream_vars, call, conv, inv, server_tools, headers>>

RECURSIVE run_hooks(_, _)
\* The hook runs after every tool invocation of one run of the runtime.
run_hooks(flag, results) ==
    IF results = <<>> THEN flag
    ELSE run_hooks(tool_invocation_end(flag, Head(results)), Tail(results))

\* One run of the runtime, self.agent(query): the results of its tool
\* invocations in order, and whether the call then raises or returns.
Run(results, raises) == [results |-> results, raises |-> raises]

\* Agent._do_invoke on a runtime whose flag is `flag`: the flag is cleared,
\* the runtime runs, and the flag is read only when the runtime returned.
do_invoke_KeepsFlag(flag, run) ==
    LET after == run_hooks(flag, run.results)
    IN  [flag |-> after,
         type |-> IF run.raises THEN "AgentExecutionError"
                  ELSE IF after THEN "MCPConnectionError" ELSE "ok"]

do_invoke(flag, run) ==
    LET cleared == FALSE
        after == run_hooks(cleared, run.results)
    IN  [flag |-> after,
         type |-> IF run.raises THEN "AgentExecutionError"
                  ELSE IF after THEN "MCPConnectionError" ELSE "ok"]

\* except MCPConnectionError in Agent.invoke: the errors of _do_invoke that
\* the loop handles; any other leaves invoke.
invoke_retries_AnyError(type) == type # "ok"

invoke_retries(type) == type = "MCPConnectionError"

\* The message of the error _do_invoke raises.
do_invoke_message(type) ==
    IF type = "MCPConnectionError" THEN "mcp_connection_error"
    ELSE "Error in agent invocation"

\* What one run of the runtime (self.agent(query)) does: it returns with the
\* flag untouched, it returns after a tool hook set
\* agent.state["mcp_connection_error"], or it raises.
TurnOutcomes == {"ok", "mcp_connection_error", "Exception"}

\* A run of the runtime of each kind.
RunOf(env) ==
    CASE env = "ok" -> Run(<< <<"tool", "not", "found">> >>, FALSE)
      [] env = "mcp_connection_error" -> Run(<< <<"Connection", "closed">> >>, FALSE)
      [] OTHER -> Run(<<>>, TRUE)

\* What self.agent.structured_output(...) does.
ExtractionOutcomes == StructuredValues \cup {"Exception"}

\* Agent.get_structured_output: None without a config or when extraction
\* raises, else the dumped model.
get_structured_output_Propagates(config, env) ==
    IF ~config THEN NoResult ELSE env

get_structured_output(config, env) ==
    IF ~config THEN NoResult
    ELSE IF env = "Exception" THEN NoResult ELSE env

\* The handle the runtime's tools are bound to is used by a turn.
UseBy(who, h) ==
    IF h = None THEN last_use
    ELSE [by |-> who, handle |-> h, stale |-> h \in replaced]

\* The user queries a caller passes to Agent.invoke.
Queries == {"query_a", "query_b"}

\* if attempt < max_retries - 1: the loop of Agent.invoke has attempts left
\* after attempt n (counted from 0).
attempts_remain_Inclusive(n, max_retries) == n < max_retries

attempts_remain(n, max_retries) == n < max_retries - 1

\* Variant: the loop of Agent.invoke runs its first attempt whatever
\* max_retries is.
invoke_AlwaysTries ==
    /\ \E query \in Queries : BeginInvoke(query)
    /\ oplog' = <<>>
    /\ attempt' = 0
    /\ mpc' = "turn" /\ outcome' = NoOutcome
    /\ UNCHANGED <<mcp, agent, conn, handles, replaced, last_use>>
    /\ UNCHANGED <<stream_vars, call, conv, inv, server_tools, headers>>

\* Agent.invoke up to the first turn attempt.
invoke ==
    /\ \E query \in Queries : BeginInvoke(query)
    /\ oplog' = <<>>
    /\ attempt' = 0
    /\ IF agent.mcp_manager /\ mcp.max_retries <= 0
       THEN Finish(Raised("AgentExecutionError", "Agent failed after attempts", mcp.max_retries))
       ELSE mpc' = "turn" /\ outcome' = NoOutcome
    /\ UNCHANGED <<mcp, agent, conn, handles, replaced, last_use>>
    /\ UNCHANGED <<stream_vars, call, conv, inv, server_tools, headers>>

\* One turn attempt: Agent._do_invoke and, when it raises
\* MCPConnectionError, the except clause of Agent.invoke up to the call of
\* _create_client_with_retry inside reconnect_all.
TurnAttempt_RebuildsBeforeReconnect ==
    /\ mpc = "turn"
    /\ \E env \in TurnOutcomes, x \in ExtractionOutcomes :
         LET turn == [Log("turn", env, attempt + 1) EXCEPT !.query = op.query]
             d == do_invoke(agent.mcp_connection_error, RunOf(env))
         IN  /\ last_use' = UseBy("turn", agent.tools_handle)
             /\ agent' = [agent EXCEPT !.mcp_connection_error = d.flag,
                                       !.instance = IF d.type = "MCPConnectionError" THEN @ + 1 ELSE @]
             /\ CASE d.type = "ok" ->
                       /\ oplog' = IF agent.structured_output_config
                                   THEN oplog \o <<turn, Log("structured_output", x, attempt + 1)>>
                                   ELSE Append(oplog, turn)
                       /\ Finish([Returned EXCEPT
                                    !.response = attempt + 1,
                                    !.structured = get_structured_output(agent.structured_output_config, x)])
                       /\ UNCHANGED <<mcp, conn>>
                  [] ~agent.mcp_manager ->
                       /\ oplog' = Append(oplog, turn)
                       /\ Finish(Raised(d.type, do_invoke_message(d.type), 0))
                       /\ UNCHANGED <<mcp, conn>>
                  [] ~invoke_retries(d.type) ->
                       /\ oplog' = Append(oplog, turn)
                       /\ Finish(Raised(d.type, do_invoke_message(d.type), 0))
                       /\ UNCHANGED <<mcp, conn>>
                  [] attempts_remain(attempt, mcp.max_retries) ->
                       /\ oplog' = oplog \o <<turn,
                                              Log("sleep", "turn", turn_delay(attempt, mcp.retry_delay)),
                                              Log("reconnect_all", "agent", mcp.client)>>
                       /\ mcp' = [mcp EXCEPT !.client = None]
                       /\ EnterConnect("recreate_agent", mcp.client)
                       /\ UNCHANGED outcome
                  [] OTHER ->
                       /\ oplog' = Append(oplog, turn)
                       /\ Finish(Raised("AgentExecutionError", "Agent failed after attempts", mcp.max_retries))
                       /\ UNCHANGED <<mcp, conn>>
    /\ UNCHANGED <<op, attempt, handles, ncalls, replaced>>
    /\ UNCHANGED <<stream_vars, call, conv, inv, server_tools, headers>>

TurnAttempt_ReconnectAfterLast ==
    /\ mpc = "turn"
    /\ \E env \in TurnOutcomes, x \in ExtractionOutcomes :
         LET turn == [Log("turn", env, attempt + 1) EXCEPT !.query = op.query]
             d == do_invoke(agent.mcp_connection_error, RunOf(env))
         IN  /\ last_use' = UseBy("turn", agent.tools_handle)
             /\ agent' = [agent EXCEPT !.mcp_connection_error = d.flag]
             /\ CASE d.type = "ok" ->
                       /\ oplog' = IF agent.structured_output_config
                                   THEN oplog \o <<turn, Log("structured_output", x, attempt + 1)>>
                                   ELSE Append(oplog, turn)
                       /\ Finish([Returned EXCEPT
                                    !.response = attempt + 1,
                                    !.structured = get_structured_output(agent.structured_output_config, x)])
                       /\ UNCHANGED <<mcp, conn>>
                  [] ~agent.mcp_manager ->
                       /\ oplog' = Append(oplog, turn)
                       /\ Finish(Raised(d.type, do_invoke_message(d.type), 0))
                       /\ UNCHANGED <<mcp, conn>>
                  [] ~invoke_retries(d.type) ->
                       /\ oplog' = Append(oplog, turn)
                       /\ Finish(Raised(d.type, do_invoke_message(d.type), 0))
                       /\ UNCHANGED <<mcp, conn>>
                  [] attempts_remain(attempt, mcp.max_retries) ->
                       /\ oplog' = oplog \o <<turn,
                                              Log("sleep", "turn", turn_delay(attempt, mcp.retry_delay)),
                                              Log("reconnect_all", "agent", mcp.client)>>
                       /\ mcp' = [mcp EXCEPT !.client = None]
                       /\ EnterConnect("recreate_agent", mcp.client)
                       /\ UNCHANGED outcome
                  [] OTHER ->
                       /\ oplog' = oplog \o <<turn,
                                              Log("sleep", "turn", turn_delay(attempt, mcp.retry_delay)),
                                              Log("reconnect_all", "agent", mcp.client)>>
                       /\ mcp' = [mcp EXCEPT !.client = None]
                       /\ Finish(Raised("AgentExecutionError", "Agent failed after attempts", mcp.max_retries))
                       /\ UNCHANGED conn
    /\ UNCHANGED <<op, attempt, handles, ncalls, replaced>>
    /\ UNCHANGED <<stream_vars, call, conv, inv, server_tools, headers>>

TurnAttempt ==
    /\ mpc = "turn"
    /\ \E env \in TurnOutcomes, x \in ExtractionOutcomes :
         LET turn == [Log("turn", env, attempt + 1) EXCEPT !.query = op.query]
             d == do_invoke(agent.mcp_connection_error, RunOf(env))
         IN  /\ last_use' = UseBy("turn", agent.tools_handle)
             /\ agent' = [agent EXCEPT !.mcp_connection_error = d.flag]
             /\ CASE d.type = "ok" ->
                       /\ oplog' = IF agent.structured_output_config
                                   THEN oplog \o <<turn, Log("structured_output", x, attempt + 1)>>
                                   ELSE Append(oplog, turn)
                       /\ Finish([Returned EXCEPT
                                    !.response = attempt + 1,
                                    !.structured = get_structured_output(agent.structured_output_config, x)])
                       /\ UNCHANGED <<mcp, conn>>
                  [] ~agent.mcp_manager ->
                       /\ oplog' = Append(oplog, turn)
                       /\ Finish(Raised(d.type, do_invoke_message(d.type), 0))
                       /\ UNCHANGED <<mcp, conn>>
                  [] ~invoke_retries(d.type) ->
                       /\ oplog' = Append(oplog, turn)
                       /\ Finish(Raised(d.type, do_invoke_message(d.type), 0))
                       /\ UNCHANGED <<mcp, conn>>
                  [] attempts_remain(attempt, mcp.max_retries) ->
                       /\ oplog' = oplog \o <<turn,
                                              Log("sleep", "turn", turn_delay(attempt, mcp.retry_delay)),
                                              Log("reconnect_all", "agent", mcp.client)>>
                       /\ mcp' = [mcp EXCEPT !.client = None]
                       /\ EnterConnect("recreate_agent", mcp.client)
                       /\ UNCHANGED outcome
                  [] OTHER ->
                       /\ oplog' = Append(oplog, turn)
                       /\ Finish(Raised("AgentExecutionError", "Agent failed after attempts", mcp.max_retries))
                       /\ UNCHANGED <<mcp, conn>>
    /\ UNCHANGED <<op, attempt, handles, ncalls, replaced>>
    /\ UNCHANGED <<stream_vars, call, conv, inv, server_tools, headers>>

\* What self._client.list_tools_sync() does.
ListOutcomes == {"ok", "Exception"}

\* The rest of Agent._reconnect_mcp_and_recreate_agent once reconnect_all
\* has returned: get_filtered_tools() on the new client, then
\* _create_strands_agent(tools), then the loop's continue.
RecreateAgent_KeepsRuntime ==
    /\ mpc = "recreate_agent"
    /\ \E env \in ListOutcomes :
         /\ last_use' = UseBy("list_tools", mcp.client)
         /\ IF env = "Exception"
            THEN /\ oplog' = Append(oplog, Log("list_tools", env, mcp.client))
                 /\ Finish(Raised("Exception", "list_tools_sync failed", 0))
                 /\ UNCHANGED <<agent, attempt>>
            ELSE /\ oplog' = Append(oplog, Log("list_tools", env, mcp.client))
                 /\ attempt' = attempt + 1
                 /\ mpc' = "turn"
                 /\ UNCHANGED <<agent, outcome>>
    /\ UNCHANGED <<mcp, op, conn, handles, ncalls, replaced>>
    /\ UNCHANGED <<stream_vars, call, conv, inv, server_tools, headers>>

RecreateAgent ==
    /\ mpc = "recreate_agent"
    /\ \E env \in ListOutcomes :
         /\ last_use' = UseBy("list_tools", mcp.client)
         /\ IF env = "Exception"
            THEN /\ oplog' = Append(oplog, Log("list_tools", env, mcp.client))
                 /\ Finish(Raised("Exception", "list_tools_sync failed", 0))
                 /\ UNCHANGED <<agent, attempt>>
            ELSE /\ oplog' = oplog \o <<Log("list_tools", env, mcp.client),
                                        Log("rebuild", "agent", agent.instance + 1)>>
                 /\ agent' = [agent EXCEPT !.instance = agent.instance + 1,
                                           !.tools_handle = mcp.client,
                                           !.mcp_connection_error = FALSE]
                 /\ attempt' = attempt + 1
                 /\ mpc' = "turn"
                 /\ UNCHANGED outcome
    /\ UNCHANGED <<mcp, op, conn, handles, ncalls, replaced>>
    /\ UNCHANGED <<stream_vars, call, conv, inv, server_tools, headers>>

ClientResults ==
    { ClientResult("raises", "missing", FALSE, m, "missing") : m \in Messages }
    \cup { ClientResult("dict", "error", TRUE, m, "missing") : m \in Messages }
    \cup { ClientResult("dict", "error", FALSE, <<>>, "missing") }
    \cup { ClientResult("dict", "success", FALSE, <<>>, st) :
               st \in {"missing", "no_result", "result", "result_unsized"} }
    \cup { ClientResult("dict", "missing", FALSE, <<>>, "missing"),
           ClientResult("dict", "missing", FALSE, <<>>, "result"),
           ClientResult("other", "missing", FALSE, <<>>, "missing") }

\* call_mcp_tool: what the call returns ("data") or raises for a client
\* result r.  A result under structuredContent that has no len() makes the
\* logging line raise TypeError, which the last except clause wraps like any
\* other exception.
call_mcp_tool_AnyStatus(r) ==
    CASE r.kind = "raises" ->
            [type |-> "AgentExecutionError", msg |-> "Error calling MCP tool"]
      [] r.kind = "dict" /\ r.status = "error" /\ r.has_content /\ has_indicator(r.msg) ->
            [type |-> "MCPConnectionError", msg |-> "MCP connection error"]
      [] r.kind = "dict" /\ r.structured = "result" ->
            [type |-> "data", msg |-> "none"]
      [] OTHER -> [type |-> "AgentExecutionError", msg |-> "Error calling MCP tool"]

call_mcp_tool(r) ==
    CASE r.kind = "raises" ->
            [type |-> "AgentExecutionError", msg |-> "Error calling MCP tool"]
      [] r.kind = "dict" /\ r.status = "error" /\ r.has_content /\ has_indicator(r.msg) ->
            [type |-> "MCPConnectionError", msg |-> "MCP connection error"]
      [] r.kind = "dict" /\ r.status = "success" /\ r.structured = "result" ->
            [type |-> "data", msg |-> "none"]
      [] OTHER -> [type |-> "AgentExecutionError", msg |-> "Error calling MCP tool"]

\* The arguments call_mcp_tool hands to call_tool_sync.
client_arguments(arguments) ==
    IF arguments # NoArguments THEN arguments ELSE Mapping({})

\* One call of call_mcp_tool(mcp_client, tool_name, tool_use_id, arguments)
\* on a client whose call_tool_sync behaves as call.result says.
CallMcpTool ==
    /\ ~call.done /\ call.result # NoClientResult
    /\ call' = [call EXCEPT !.done = TRUE,
                            !.passed = client_arguments(call.arguments),
                            !.outcome = call_mcp_tool(call.result)]
    /\ UNCHANGED <<mcp, agent, mpc, op, conn, attempt, oplog, outcome, handles,
                   ncalls, replaced, last_use, server_tools, headers, conv, inv>>
    /\ UNCHANGED stream_vars

\* MCPManager.call_tool up to the first call of the tool.
call_tool ==
    /\ Begin("call_tool", <<>>, TRUE)
    /\ oplog' = <<>>
    /\ outcome' = NoOutcome
    /\ IF mcp.client = None
       THEN EnterConnect("call_tool", None)
       ELSE mpc' = "call_tool" /\ UNCHANGED conn
    /\ UNCHANGED <<mcp, agent, attempt, handles, replaced, last_use>>
    /\ UNCHANGED <<stream_vars, call, conv, inv, server_tools, headers>>

\* The try block of MCPManager.call_tool and, on MCPConnectionError, its
\* except clause up to the call of _create_client_with_retry.
FirstCall_NoReconnect ==
    /\ mpc = "call_tool"
    /\ \E r \in ClientResults :
         LET c == call_mcp_tool(r)
         IN  /\ last_use' = UseBy("call_tool", mcp.client)
             /\ oplog' = Append(oplog, Log("call_tool", c.type, mcp.client))
             /\ IF c.type = "data"
                THEN Finish([Returned EXCEPT !.result = r])
                ELSE Finish([Raised(c.type, c.msg, 0) EXCEPT !.result = r])
             /\ UNCHANGED <<mcp, conn>>
    /\ UNCHANGED <<agent, op, attempt, handles, ncalls, replaced>>
    /\ UNCHANGED <<stream_vars, call, conv, inv, server_tools, headers>>

FirstCall ==
    /\ mpc = "call_tool"
    /\ \E r \in ClientResults :
         LET c == call_mcp_tool(r)
         IN  /\ last_use' = UseBy("call_tool", mcp.client)
             /\ CASE c.type = "data" ->
                       /\ oplog' = Append(oplog, Log("call_tool", c.type, mcp.client))
                       /\ Finish([Returned EXCEPT !.result = r])
                       /\ UNCHANGED <<mcp, conn>>
                  [] c.type = "MCPConnectionError" ->
                       /\ oplog' = oplog \o <<Log("call_tool", c.type, mcp.client),
                                              Log("reconnect_all", "manager", mcp.client)>>
                       /\ mcp' = [mcp EXCEPT !.client = None]
                       /\ EnterConnect("retry_call_tool", mcp.client)
                       /\ UNCHANGED outcome
                  [] OTHER ->
                       /\ oplog' = Append(oplog, Log("call_tool", c.type, mcp.client))
                       /\ Finish([Raised(c.type, c.msg, 0) EXCEPT !.result = r])
                       /\ UNCHANGED <<mcp, conn>>
    /\ UNCHANGED <<agent, op, attempt, handles, ncalls, replaced>>
    /\ UNCHANGED <<stream_vars, call, conv, inv, server_tools, headers>>

\* The second call_mcp_tool of MCPManager.call_tool, after reconnect_all:
\* whatever it returns or raises reaches the caller.
SecondCall ==
    /\ mpc = "retry_call_tool"
    /\ \E r \in ClientResults :
         LET c == call_mcp_tool(r)
         IN  /\ last_use' = UseBy("call_tool", mcp.client)
             /\ oplog' = Append(oplog, Log("call_tool", c.type, mcp.client))
             /\ IF c.type = "data"
                THEN Finish([Returned EXCEPT !.result = r])
                ELSE Finish([Raised(c.type, c.msg, 0) EXCEPT !.result = r])
    /\ UNCHANGED <<mcp, agent, op, conn, attempt, handles, ncalls, replaced>>
    /\ UNCHANGED <<stream_vars, call, conv, inv, server_tools, headers>>

\* A tool as filter_tools sees it: meta is "missing" (mcp_tool has no
\* attribute meta), "None" or "dict"; fastmcp is "missing" (no "_fastmcp"
\* key), "empty" ({}) or "dict"; has_tags tells if "_fastmcp" has a "tags"
\* key and tags is its list.
Descriptor(meta, fastmcp, has_tags, tags) ==
    [meta |-> meta, fastmcp |-> fastmcp, has_tags |-> has_tags, tags |-> tags]

Descriptors ==
    { Descriptor("missing", "missing", FALSE, <<>>),
      Descriptor("None", "missing", FALSE, <<>>),
      Descriptor("dict", "missing", FALSE, <<>>),
      Descriptor("dict", "empty", FALSE, <<>>),
      Descriptor("dict", "dict", FALSE, <<>>),
      Descriptor("dict", "dict", TRUE, <<"campaign">>),
      Descriptor("dict", "dict", TRUE, <<"report">>),
      Descriptor("dict", "dict", TRUE, <<"campaign", "report">>) }

\* The i-th tool of a list is named i.
Tool(i, d) ==
    [name |-> i, meta |-> d.meta, fastmcp |-> d.fastmcp, has_tags |-> d.has_tags,
     tags |-> d.tags]

ToolLists ==
    UNION { { [i \in 1..n |-> Tool(i, f[i])] : f \in [1..n -> Descriptors] } : n \in 0..MaxTools }

\* The tag lists a caller filters by.
FilterLists ==
    { <<>>, <<"campaign">>, <<"report">>, <<"audit">>, <<"campaign", "audit">> }

\* x in list
In(x, list) == \E i \in 1..Len(list) : list[i] = x

\* The condition of the comprehension in filter_tools.
keeps_AllTags(tool, tags) ==
    /\ tool.meta = "dict"
    /\ tool.fastmcp = "dict"
    /\ \A i \in 1..Len(tags) : In(tags[i], IF tool.has_tags THEN tool.tags ELSE <<>>)

keeps(tool, tags) ==
    /\ tool.meta # "missing"
    /\ tool.meta = "dict"
    /\ tool.fastmcp = "dict"
    /\ \E i \in 1..Len(tags) : In(tags[i], IF tool.has_tags THEN tool.tags ELSE <<>>)

\* filter_tools: the tools kept, in the order of the list.
RECURSIVE filter_tools(_, _)
filter_tools(tools, tags) ==
    IF tools = <<>> THEN <<>>
    ELSE IF keeps(Head(tools), tags)
         THEN <<Head(tools)>> \o filter_tools(Tail(tools), tags)
         ELSE filter_tools(Tail(tools), tags)

\* MCPManager.get_filtered_tools on the listed tools; use_default stands for
\* tags=None.
filtered(m, tools, tags, use_default) ==
    LET filter_tags == IF ~use_default THEN tags ELSE m.tool_tags
    IN  IF filter_tags # <<>> THEN filter_tools(tools, filter_tags) ELSE tools

\* MCPManager.get_filtered_tools(tags) up to list_tools_sync: get_tools
\* connects first when there is no client.
get_filtered_tools_AlwaysConnects ==
    /\ \E tags \in FilterLists, use_default \in BOOLEAN :
         /\ use_default => tags = <<>>
         /\ Begin("get_filtered_tools", tags, use_default)
    /\ oplog' = <<>>
    /\ outcome' = NoOutcome
    /\ EnterConnect("list_tools", None)
    /\ UNCHANGED <<mcp, agent, attempt, handles, replaced, last_use>>
    /\ UNCHANGED <<stream_vars, call, conv, inv, server_tools, headers>>

get_filtered_tools ==
    /\ \E tags \in FilterLists, use_default \in BOOLEAN :
         /\ use_default => tags = <<>>
         /\ Begin("get_filtered_tools", tags, use_default)
    /\ oplog' = <<>>
    /\ outcome' = NoOutcome
    /\ IF mcp.client = None
       THEN EnterConnect("list_tools", None)
       ELSE mpc' = "list_tools" /\ UNCHANGED conn
    /\ UNCHANGED <<mcp, agent, attempt, handles, replaced, last_use>>
    /\ UNCHANGED <<stream_vars, call, conv, inv, server_tools, headers>>

\* self._client.list_tools_sync() and the filtering of its result.
ListTools ==
    /\ mpc = "list_tools"
    /\ \E env \in ListOutcomes :
         /\ last_use' = UseBy("list_tools", mcp.client)
         /\ oplog' = Append(oplog, Log("list_tools", env, mcp.client))
         /\ IF env = "Exception"
            THEN Finish(Raised("Exception", "list_tools_sync failed", 0))
            ELSE Finish([Returned EXCEPT !.tools = filtered(mcp, server_tools, op.tags, op.use_default)])
    /\ UNCHANGED <<mcp, agent, op, conn, attempt, handles, ncalls, replaced>>
    /\ UNCHANGED <<stream_vars, call, conv, inv, server_tools, headers>>

\* A direct call filter_tools(tools, tags) on the listed tools.
apply_filter_tools ==
    /\ \E tags \in FilterLists : Begin("filter_tools", tags, FALSE)
    /\ oplog' = <<>>
    /\ Finish([Returned EXCEPT !.tools = filter_tools(server_tools, op'.tags)])
    /\ UNCHANGED <<mcp, agent, conn, attempt, handles, replaced, last_use>>
    /\ UNCHANGED <<stream_vars, call, conv, inv, server_tools, headers>>

\* The streaming variables while only the manager and invoke are observed.
StreamPinned ==
    /\ kind = "strands"
    /\ pc = "init"
    /\ emitted = <<>>
    /\ pending = <<>>
    /\ bridge = BridgeInit
    /\ uuids = 0
    /\ raw_count = 0
    /\ structured_output_config = FALSE
    /\ extraction = "not_run"
    /\ structured_result = NoResult
    /\ raised = FALSE

\* The transport's required setting is present.
Configured(m) == IF m.use_stdio THEN m.mcp_server_path ELSE m.gateway_url

\* The tools the server lists while the retry loops are observed.
DefaultServerTools ==
    << Tool(1, Descriptor("dict", "dict", TRUE, <<"campaign">>)),
       Tool(2, Descriptor("missing", "missing", FALSE, <<>>)) >>

\* A manager just constructed, or one already connected with the agent's
\* tools taken from that first client.
InitMCP ==
    /\ StreamPinned
    /\ Quiescent
    /\ server_tools = DefaultServerTools
    /\ \E use_stdio \in BOOLEAN, configured \in BOOLEAN, tags \in {<<"campaign">>},
          max_retries \in (0 - 1)..MaxRetries, retry_delay \in RetryDelays,
          connected \in BOOLEAN, has_manager \in BOOLEAN, schema \in BOOLEAN :
         /\ connected => (configured /\ max_retries >= 1)
         /\ mcp = [MCPManager_init(use_stdio, use_stdio => configured, (~use_stdio) => configured,
                                   FALSE, tags, max_retries, retry_delay)
                     EXCEPT !.client = IF connected THEN 1 ELSE None]
         /\ handles = IF connected THEN 1 ELSE 0
         /\ agent = Agent_init(has_manager, IF connected THEN 1 ELSE None, schema)

NextMCP ==
    \/ create_client
    \/ reconnect_all
    \/ stop
    \/ ConnectAttempt
    \/ ReturnToCaller
    \/ invoke
    \/ TurnAttempt
    \/ RecreateAgent
    \/ call_tool
    \/ FirstCall
    \/ SecondCall
    \/ get_filtered_tools
    \/ ListTools

SpecMCP == InitMCP /\ [][NextMCP]_vars

\* A single SDK call on a fresh manager and agent: the first call is the only
\* one.
NextOneCall == NextMCP /\ ncalls' <= 1

SpecOneCall == InitMCP /\ [][NextOneCall]_vars

\* A connected manager asked once for tools, over every tool list.
InitFilter ==
    /\ StreamPinned
    /\ Quiescent
    /\ server_tools \in ToolLists
    /\ \E tags \in TagLists :
         mcp = [MCPManager_init(FALSE, FALSE, TRUE, FALSE, tags, 3, 1) EXCEPT !.client = 1]
    /\ handles = 1
    /\ agent = Agent_init(TRUE, 1, FALSE)

NextFilter ==
    \/ get_filtered_tools
    \/ ListTools
    \/ apply_filter_tools

SpecFilter == InitFilter /\ [][NextFilter]_vars

\* A manager just constructed, with or without a headers factory, on which
\* only the connection calls are made.
InitConnect ==
    /\ StreamPinned
    /\ Quiescent
    /\ server_tools = DefaultServerTools
    /\ handles = 0
    /\ agent = Agent_init(FALSE, None, FALSE)
    /\ \E use_stdio \in BOOLEAN, configured \in BOOLEAN, headers_factory \in BOOLEAN,
          max_retries \in (0 - 1)..MaxRetries :
         mcp = MCPManager_init(use_stdio, use_stdio => configured, (~use_stdio) => configured,
                               headers_factory, <<>>, max_retries, 1)

NextConnect ==
    \/ create_client
    \/ reconnect_all
    \/ stop
    \/ ConnectAttempt
    \/ ReturnToCaller

SpecConnect == InitConnect /\ [][NextConnect]_vars

\* The argument mappings of a tool call, by their parameter names.
Arguments == {NoArguments} \cup {Mapping(keys) : keys \in SUBSET (1..MaxParams)}

\* call_mcp_tool called directly, as the unit tests call it, with any
\* arguments on a client with any behaviour.
InitCall ==
    /\ StreamPinned
    /\ mpc = "idle" /\ op = NoOp /\ conn = [attempt |-> 0, ret |-> "none", old |-> None]
    /\ attempt = 0 /\ oplog = <<>> /\ outcome = NoOutcome /\ ncalls = 0
    /\ replaced = {} /\ last_use = NoUse /\ headers = NoHeaders
    /\ conv = NoConversion /\ inv = NoInvocation
    /\ mcp = [MCPManager_init(FALSE, FALSE, TRUE, FALSE, <<>>, 3, 1) EXCEPT !.client = 1]
    /\ handles = 1
    /\ server_tools = DefaultServerTools
    /\ agent = Agent_init(FALSE, None, FALSE)
    /\ \E arguments \in Arguments, r \in ClientResults :
         call = [NoCall EXCEPT !.arguments = arguments, !.result = r]

NextCall == CallMcpTool

SpecCall == InitCall /\ [][NextCall]_vars

\* The argument chunks buffered since the open tool call started.
ArgsBuffers == UNION {[1..n -> {"x"}] : n \in 0..MaxChunks}

\* The states a StrandsToAGUIBridge is in between two raw events of a turn:
\* the message is open (uuid 1); no tool call is open, or one is (uuid 2)
\* with its name and the chunks buffered so far.
StrandsBridges ==
    {[BridgeInit EXCEPT !.current_message_id = 1]}
    \cup {[current_message_id |-> 1, current_tool_call_id |-> 2,
            tool_args_buffer |-> buf, tool_name |-> "t1"] : buf \in ArgsBuffers}

\* The states a LangChainToAGUIBridge is in between two raw events.
LangChainBridges ==
    {[BridgeInit EXCEPT !.current_message_id = 1, !.current_tool_call_id = id] :
        id \in {None} \cup ToolObjectIds}

\* One raw event handed to a bridge in any of these states.
InitBridge ==
    /\ StreamPinned
    /\ mpc = "idle" /\ op = NoOp /\ conn = [attempt |-> 0, ret |-> "none", old |-> None]
    /\ attempt = 0 /\ oplog = <<>> /\ outcome = NoOutcome /\ ncalls = 0
    /\ replaced = {} /\ last_use = NoUse /\ headers = NoHeaders
    /\ call = NoCall /\ inv = NoInvocation
    /\ mcp = MCPManager_init(FALSE, TRUE, TRUE, FALSE, <<>>, 3, 1)
    /\ handles = 0
    /\ server_tools = <<>>
    /\ agent = Agent_init(FALSE, None, FALSE)
    /\ \/ \E b \in StrandsBridges, e \in StrandsEvents :
            conv = [NoConversion EXCEPT !.kind = "strands", !.bridge = b, !.event = e,
                        !.uuid = IF b.current_tool_call_id = None THEN 2 ELSE 3]
       \/ \E b \in LangChainBridges, e \in LangChainEvents, tool_id \in ToolObjectIds :
            conv = [NoConversion EXCEPT !.kind = "langchain", !.bridge = b, !.event = e,
                        !.tool_id = tool_id, !.uuid = 2]

\* bridge.convert_strands_event(event) as the Strands generators call it.
Strands_Convert ==
    /\ conv.kind = "strands" /\ ~conv.done
    /\ conv' = [conv EXCEPT !.done = TRUE,
                            !.out = convert_strands_event(conv.bridge, conv.event, conv.uuid)]
    /\ UNCHANGED <<mcp, agent, mpc, op, conn, attempt, oplog, outcome, handles,
                   ncalls, replaced, last_use, server_tools, headers, call, inv>>
    /\ UNCHANGED stream_vars

\* bridge.process_stream_event(event) as the LangChain generator calls it.
LangChain_Convert ==
    /\ conv.kind = "langchain" /\ ~conv.done
    /\ conv' = [conv EXCEPT !.done = TRUE,
                            !.out = process_stream_event(conv.bridge, conv.event,
                                                         conv.tool_id, conv.uuid)]
    /\ UNCHANGED <<mcp, agent, mpc, op, conn, attempt, oplog, outcome, handles,
                   ncalls, replaced, last_use, server_tools, headers, call, inv>>
    /\ UNCHANGED stream_vars

NextBridge ==
    \/ Strands_Convert
    \/ LangChain_Convert

SpecBridge == InitBridge /\ [][NextBridge]_vars

\* The runs of the runtime with at most MaxToolCalls tool invocations.
Runs ==
    {Run(results, raises) :
        results \in UNION {[1..n -> ToolResults] : n \in 0..MaxToolCalls},
        raises \in BOOLEAN}

\* One turn attempt on a runtime whose flag an earlier turn (an invoke or a
\* streamed turn, which never clears it) left set or unset.
InitTurn ==
    /\ StreamPinned
    /\ mpc = "idle" /\ op = NoOp /\ conn = [attempt |-> 0, ret |-> "none", old |-> None]
    /\ attempt = 0 /\ oplog = <<>> /\ outcome = NoOutcome /\ ncalls = 0
    /\ replaced = {} /\ last_use = NoUse /\ headers = NoHeaders
    /\ call = NoCall /\ conv = NoConversion
    /\ mcp = [MCPManager_init(FALSE, FALSE, TRUE, FALSE, <<>>, 3, 1) EXCEPT !.client = 1]
    /\ handles = 1
    /\ server_tools = DefaultServerTools
    /\ \E flag \in BOOLEAN, run \in Runs :
         /\ inv = [NoInvocation EXCEPT !.flag = flag, !.run = run]
         /\ agent = [Agent_init(TRUE, 1, FALSE) EXCEPT !.mcp_connection_error = flag]

\* Agent._do_invoke(query) on that runtime.
DoInvoke ==
    /\ ~inv.done /\ agent.tools_handle # None
    /\ inv' = [inv EXCEPT !.done = TRUE, !.out = do_invoke(agent.mcp_connection_error, inv.run)]
    /\ agent' = [agent EXCEPT !.mcp_connection_error = inv'.out.flag]
    /\ UNCHANGED <<mcp, mpc, op, conn, attempt, oplog, outcome, handles,
                   ncalls, replaced, last_use, server_tools, headers, call, conv>>
    /\ UNCHANGED stream_vars

NextTurn == DoInvoke

SpecTurn == InitTurn /\ [][NextTurn]_vars

\* One call of Agent.invoke on a fresh agent, with or without a manager and
\* a structured-output schema, the manager connected or not yet.
InitInvoke ==
    /\ StreamPinned
    /\ Quiescent
    /\ server_tools = DefaultServerTools
    /\ \E max_retries \in (0 - 1)..MaxRetries, retry_delay \in RetryDelays,
          connected \in BOOLEAN, has_manager \in BOOLEAN, schema \in BOOLEAN :
         /\ connected => max_retries >= 1
         /\ mcp = [MCPManager_init(FALSE, TRUE, TRUE, FALSE, <<"campaign">>, max_retries, retry_delay)
                     EXCEPT !.client = IF connected THEN 1 ELSE None]
         /\ handles = IF connected THEN 1 ELSE 0
         /\ agent = Agent_init(has_manager, IF connected THEN 1 ELSE None, schema)

NextInvoke ==
    \/ ncalls = 0 /\ invoke
    \/ TurnAttempt
    \/ ConnectAttempt
    \/ RecreateAgent

\* self.agent(query), _create_client_internal and list_tools_sync are
\* blocking calls on the caller's thread: once entered, each returns or
\* raises and the loop goes on.
FairInvoke ==
    /\ WF_vars(TurnAttempt)
    /\ WF_vars(ConnectAttempt)
    /\ WF_vars(RecreateAgent)

SpecInvoke == InitInvoke /\ [][NextInvoke]_vars /\ FairInvoke

(***************************************************************************)
(* Properties of the emitted sequence                                      *)
(***************************************************************************)
Positions(t) == {i \in 1..Len(emitted) : emitted[i].type = t}

ToolPositions(t, id) == {i \in Positions(t) : emitted[i].tool_call_id = id}

ToolTypes == {"TOOL_CALL_START", "TOOL_CALL_ARGS", "TOOL_CALL_RESULT",
              "TOOL_CALL_END"}

ToolCallIds ==
    {emitted[i].tool_call_id : i \in {j \in 1..Len(emitted) : emitted[j].type \in ToolTypes}}

Last == emitted[Len(emitted)]

SdkStream == kind \in {"strands", "langchain"}

TurnOver == pc \in {"done", "raised"}

\* C1: in a turn streamed by Agent/AgentLangchain.stream_with_agui_bridge the
\* first emitted event is RUN_STARTED, a RUN_FINISHED/RUN_ERROR is only ever
\* the last event emitted (so there is at most one), and a turn that is over
\* ends with one, whether the runtime raised or not.
C1_RunStartedFirstTerminalLast ==
    SdkStream =>
        /\ emitted # <<>> => emitted[1].type = "RUN_STARTED"
        /\ \A i \in 1..Len(emitted) :
              emitted[i].type \in Terminal => i = Len(emitted) /\ pc = "done"
        /\ TurnOver => emitted # <<>> /\ Last.type \in Terminal

C1_Witness ==
    /\ kind = "strands" /\ pc = "done" /\ raised
    /\ Last.type = "RUN_ERROR"
    /\ Positions("TOOL_CALL_START") # {}

\* C2: once a turn of Agent/AgentLangchain.stream_with_agui_bridge is over,
\* for every tool-call id in the emitted sequence a TOOL_CALL_START with that
\* id precedes every TOOL_CALL_ARGS/TOOL_CALL_RESULT with it, and exactly one
\* TOOL_CALL_END with that id follows the START.
C2_ToolCallLifecycle ==
    (SdkStream /\ TurnOver) =>
        \A id \in ToolCallIds :
            /\ \A i \in ToolPositions("TOOL_CALL_ARGS", id)
                      \cup ToolPositions("TOOL_CALL_RESULT", id) :
                  \E j \in ToolPositions("TOOL_CALL_START", id) : j < i
            /\ Cardinality(ToolPositions("TOOL_CALL_END", id)) = 1
            /\ \A k \in ToolPositions("TOOL_CALL_END", id) :
                  \E j \in ToolPositions("TOOL_CALL_START", id) : j < k

\* C3: when the raw stream ended normally (the turn finished with
\* RUN_FINISHED), every TOOL_CALL_START in the emitted sequence is followed
\* by a TOOL_CALL_RESULT and then a TOOL_CALL_END with its id, all before
\* TEXT_MESSAGE_END, on the Strands and on the LangChain path.
C3_ForceCloseAtStreamEnd ==
    (SdkStream /\ pc = "done" /\ Last.type = "RUN_FINISHED") =>
        \A i \in Positions("TOOL_CALL_START") :
            \E j \in ToolPositions("TOOL_CALL_RESULT", emitted[i].tool_call_id),
               k \in ToolPositions("TOOL_CALL_END", emitted[i].tool_call_id),
               m \in Positions("TEXT_MESSAGE_END") :
                i < j /\ j < k /\ k < m

\* C4: a TOOL_CALL_START is emitted only after every earlier TOOL_CALL_START
\* has been closed: between an earlier START and a later one there are a
\* TOOL_CALL_RESULT and then a TOOL_CALL_END with the earlier id.
C4_ForceCloseBeforeNewStart ==
    SdkStream =>
        \A i \in Positions("TOOL_CALL_START") :
            \A j \in {p \in Positions("TOOL_CALL_START") : p < i} :
                \E r \in ToolPositions("TOOL_CALL_RESULT", emitted[j].tool_call_id),
                   k \in ToolPositions("TOOL_CALL_END", emitted[j].tool_call_id) :
                    j < r /\ r < k /\ k < i

\* The TOOL_CALL_STARTs of the first n events that no later TOOL_CALL_END
\* with the same id (among the first n events) matches.
OpenAt(n) ==
    {i \in {p \in Positions("TOOL_CALL_START") : p <= n} :
        ~ \E k \in ToolPositions("TOOL_CALL_END", emitted[i].tool_call_id) :
              i < k /\ k <= n}

\* C5: in every prefix of the emitted sequence at most one TOOL_CALL_START
\* is not yet matched by a TOOL_CALL_END with the same id.
C5_AtMostOneOpenToolCall ==
    \A n \in 0..Len(emitted) : Cardinality(OpenAt(n)) <= 1

\* C6: a non-none current tool-call id implies a non-none current message
\* id, and every TOOL_CALL_START the bridge returned carries as parent the
\* non-none id of the message opened by the earlier TEXT_MESSAGE_START,
\* which no TEXT_MESSAGE_END has closed yet.
C6_ToolCallNestedInMessage ==
    /\ bridge.current_tool_call_id # None => bridge.current_message_id # None
    /\ \A n \in 1..Len(pending) :
          pending[n].type = "TOOL_CALL_START" =>
              /\ pending[n].message_id # None
              /\ pending[n].message_id = bridge.current_message_id
    /\ \A i \in Positions("TOOL_CALL_START") :
          /\ emitted[i].message_id # None
          /\ \E j \in Positions("TEXT_MESSAGE_START") :
                j < i /\ emitted[j].message_id = emitted[i].message_id
          /\ \A m \in Positions("TEXT_MESSAGE_END") : i < m

C6_Witness ==
    /\ bridge.current_tool_call_id # None
    /\ Positions("TOOL_CALL_START") # {}
    /\ emitted[Len(emitted)].type = "TOOL_CALL_START"

\* C7: the text-message events are well nested: at most one
\* TEXT_MESSAGE_START at any time and exactly one once the message has been
\* started, every TEXT_MESSAGE_CONTENT carries the id of that START and lies
\* after it and before any TEXT_MESSAGE_END, at most one TEXT_MESSAGE_END is
\* emitted and it carries the same id, so no other message id occurs.
C7_TextMessageWellNested ==
    /\ Cardinality(Positions("TEXT_MESSAGE_START")) <= 1
    /\ pc \notin {"init", "run_started", "closed"} =>
          Cardinality(Positions("TEXT_MESSAGE_START")) = 1
    /\ Cardinality(Positions("TEXT_MESSAGE_END")) <= 1
    /\ \A i \in Positions("TEXT_MESSAGE_CONTENT") \cup Positions("TEXT_MESSAGE_END") :
          \E j \in Positions("TEXT_MESSAGE_START") :
              /\ j < i
              /\ emitted[j].message_id # None
              /\ emitted[i].message_id = emitted[j].message_id
    /\ \A i \in Positions("TEXT_MESSAGE_CONTENT") :
          \A m \in Positions("TEXT_MESSAGE_END") : i < m

C7_Witness ==
    /\ pc = "done"
    /\ Positions("TEXT_MESSAGE_CONTENT") # {}
    /\ Positions("TEXT_MESSAGE_END") # {}
    /\ \E i \in Positions("TOOL_CALL_END") :
          \E j \in Positions("TEXT_MESSAGE_CONTENT") : i < j

\* C8: in a turn streamed by Agent/AgentLangchain.stream_with_agui_bridge,
\* the step in which an exception is raised emits RUN_ERROR and nothing
\* else (no TOOL_CALL_RESULT, TOOL_CALL_END or TEXT_MESSAGE_END for what is
\* dangling, no RUN_FINISHED) and ends the generator; the bridge's dangling
\* state stays as it was.
C8_ErrorShortCircuitsToRunError ==
    [][(SdkStream /\ ~raised /\ raised') =>
           /\ emitted' = Append(emitted, Event("RUN_ERROR", None, None, "error"))
           /\ pc' = "done"
           /\ bridge' = bridge]_vars

C8_Witness ==
    /\ SdkStream /\ raised /\ pc = "done"
    /\ bridge.current_tool_call_id # None
    /\ Last.type = "RUN_ERROR"
    /\ ToolPositions("TOOL_CALL_END", bridge.current_tool_call_id) = {}

\* C9: for every AG-UI streaming entry point (the two SDK generators and
\* the stream_agui_response generator of src/agent/main.py), a turn that is
\* over, with or without an exception from the runtime, has a
\* RUN_FINISHED/RUN_ERROR as the last event its consumer received.
C9_ConsumerAlwaysGetsTerminalEvent ==
    TurnOver => emitted # <<>> /\ Last.type \in Terminal

\* C10 (as stated): the structured-result fetch never starts before
\* TEXT_MESSAGE_END has been emitted, and RUN_FINISHED carries the fetched
\* value (none when nothing was fetched or the extraction failed).
C10_FetchAfterTextMessageEnd ==
    /\ extraction # "not_run" => Positions("TEXT_MESSAGE_END") # {}
    /\ \A i \in Positions("RUN_FINISHED") :
          emitted[i].data =
              IF extraction \in StructuredValues THEN extraction ELSE NoResult

\* C10 (amended): on Agent.stream_with_agui_bridge the structured result is
\* fetched (if configured) once the raw stream is exhausted and before
\* TEXT_MESSAGE_END is emitted; TEXT_MESSAGE_END is then immediately
\* followed by RUN_FINISHED, which carries the fetched value (none when no
\* schema is configured or the extraction failed).  The LangChain generator
\* and the main.py generator fetch nothing and finish with result none.
C10_FetchBeforeTextMessageEnd ==
    /\ extraction # "not_run" =>
          /\ kind = "strands" /\ structured_output_config
          /\ pc \in {"end_message", "finish_run", "done", "closed"}
          /\ pending = <<>>
    /\ (kind = "strands" /\ structured_output_config
            /\ Positions("TEXT_MESSAGE_END") # {}) => extraction # "not_run"
    /\ \A i \in Positions("RUN_FINISHED") :
          /\ i > 1 /\ emitted[i - 1].type = "TEXT_MESSAGE_END"
          /\ emitted[i].data =
                IF extraction \in StructuredValues THEN extraction ELSE NoResult
          /\ kind # "strands" => emitted[i].data = NoResult

C10_Witness ==
    /\ kind = "strands" /\ pc = "done"
    /\ extraction \in StructuredValues
    /\ Last.type = "RUN_FINISHED" /\ Last.data = extraction

(***************************************************************************)
(* Properties of the connection manager and of Agent.invoke                *)
(***************************************************************************)
Entries(ev) == SelectSeq(oplog, LAMBDA e : e.ev = ev)

EntriesAt(ev, level) == SelectSeq(oplog, LAMBDA e : e.ev = ev /\ e.level = level)

\* An SDK call of this name has returned or raised.
Done(name) == mpc = "idle" /\ op.name = name /\ outcome.status # "none"

\* Agent.invoke ran, with a manager whose max_retries is at least 1.
InvokeDone == Done("invoke") /\ agent.mcp_manager /\ mcp.max_retries >= 1

\* The first k turn attempts signalled a connection failure and attempt
\* k + 1 succeeded.
FailedThenSucceeded(k) ==
    /\ Len(Entries("turn")) = k + 1
    /\ \A i \in 1..k : Entries("turn")[i].level = "mcp_connection_error"
    /\ Entries("turn")[k + 1].level = "ok"

\* C11 as stated: after k signalled connection failures and a success on
\* attempt k + 1, invoke returns the result of attempt k + 1 having made
\* exactly k reconnect_all calls, k runtime rebuilds and k sleeps, counting
\* every sleep of the call.
C11_ExactlyKSleepsInAll ==
    \A k \in 0..MaxRetries :
        (InvokeDone /\ FailedThenSucceeded(k)) =>
            /\ outcome.status = "returned" /\ outcome.response = k + 1
            /\ Len(Entries("reconnect_all")) = k
            /\ Len(Entries("rebuild")) = k
            /\ Len(Entries("sleep")) = k

\* C11 amended: after k < N signalled connection failures and a success on
\* attempt k + 1, invoke returns the result of attempt k + 1 having made
\* exactly k reconnect_all calls, k runtime rebuilds and k sleeps of the
\* turn-level loop; the connection attempts inside each reconnect_all add
\* the sleeps of their own loop.
C11_KReconnectsKTurnSleepsKRebuilds ==
    \A k \in 0..MaxRetries :
        (InvokeDone /\ FailedThenSucceeded(k)) =>
            /\ k < mcp.max_retries
            /\ outcome.status = "returned" /\ outcome.response = k + 1
            /\ Len(Entries("reconnect_all")) = k
            /\ Len(Entries("rebuild")) = k
            /\ Len(EntriesAt("sleep", "turn")) = k
            /\ Len(Entries("sleep")) >= k

C11_Witness ==
    /\ InvokeDone /\ mcp.max_retries = 3 /\ FailedThenSucceeded(2)
    /\ outcome.response = 3
    /\ Len(Entries("reconnect_all")) = 2

\* C12: when every one of the N turn attempts signals a connection
\* failure, invoke raises AgentExecutionError naming N attempts after
\* exactly N turn attempts and N - 1 reconnects, and the last failed
\* attempt is followed by no sleep, reconnect or rebuild.
C12_AllAttemptsFailRaisesAfterN ==
    (/\ InvokeDone
     /\ Len(Entries("turn")) = mcp.max_retries
     /\ \A i \in 1..Len(Entries("turn")) : Entries("turn")[i].level = "mcp_connection_error") =>
        /\ outcome.status = "raised" /\ outcome.type = "AgentExecutionError"
        /\ outcome.msg = "Agent failed after attempts" /\ outcome.attempts = mcp.max_retries
        /\ Len(Entries("reconnect_all")) = mcp.max_retries - 1
        /\ Len(EntriesAt("sleep", "turn")) = mcp.max_retries - 1
        /\ Len(Entries("rebuild")) = mcp.max_retries - 1
        /\ oplog[Len(oplog)].ev = "turn"

C12_Witness ==
    /\ InvokeDone /\ mcp.max_retries = 3 /\ outcome.status = "raised"
    /\ Len(EntriesAt("turn", "mcp_connection_error")) = 3
    /\ outcome.attempts = 3

\* The connection attempts of a call that connects with retry exactly once.
OneLoop == op.name \in {"create_client", "reconnect_all"} /\ mcp.max_retries >= 1

\* C13: in the connection loop with max_retries = N, k < N failed attempts
\* followed by a success make exactly k sleeps and leave a live client; N
\* failed attempts make it raise after the N-th with N - 1 sleeps, none
\* after the last failure; a failed attempt i (0-based) is followed by a
\* sleep and a further attempt iff i < N - 1.
C13_ConnectRetriedIffNotLast ==
    /\ \A i \in 1..Len(oplog) :
         (oplog[i].ev = "connect" /\ oplog[i].level = "MCPConnectionError") =>
            /\ oplog[i].n <= mcp.max_retries
            /\ (oplog[i].n - 1 < mcp.max_retries - 1) <=>
                  (i < Len(oplog) /\ oplog[i + 1].ev = "sleep" /\ oplog[i + 1].level = "connect")
            /\ (oplog[i].n - 1 < mcp.max_retries - 1) <=> (mpc = "connect" \/ i + 1 < Len(oplog))
    /\ (OneLoop /\ Len(EntriesAt("connect", "ok")) = 1) =>
         /\ Len(EntriesAt("sleep", "connect")) = Len(EntriesAt("connect", "MCPConnectionError"))
         /\ Len(EntriesAt("connect", "MCPConnectionError")) < mcp.max_retries
         /\ mcp.client # None
    /\ (OneLoop /\ Len(EntriesAt("connect", "MCPConnectionError")) = mcp.max_retries) =>
         /\ Done(op.name) /\ outcome.status = "raised" /\ outcome.type = "AgentExecutionError"
         /\ Len(EntriesAt("sleep", "connect")) = mcp.max_retries - 1
         /\ oplog[Len(oplog)].ev = "connect"
         /\ mcp.client = None

C13_Witness ==
    /\ Done("create_client") /\ mcp.max_retries = 3 /\ outcome.status = "returned"
    /\ Len(EntriesAt("connect", "MCPConnectionError")) = 2
    /\ Len(EntriesAt("sleep", "connect")) = 2
    /\ mcp.client # None

\* The delays slept, in order, by the loop of this level.
Sleeps(level) == [i \in 1..Len(EntriesAt("sleep", level)) |-> EntriesAt("sleep", level)[i].n]

\* Delays that start at base and double: base, 2*base, 4*base, ...
Doubling(delays, base) ==
    /\ delays # <<>> => delays[1] = base
    /\ \A j \in 1..(Len(delays) - 1) : delays[j + 1] = 2 * delays[j]

\* C14: the sleep that follows failed attempt number a (0-based) lasts
\* exactly retry_delay * 2^a, in the connection-level loop and in the
\* turn-level loop alike, so the sleeps of one loop are base, 2*base,
\* 4*base, ... with no cap and no jitter.
C14_BackoffIsBaseTimesTwoToAttempt ==
    /\ \A i \in 1..Len(oplog) :
         oplog[i].ev = "sleep" =>
            /\ i > 1
            /\ oplog[i - 1].ev = (IF oplog[i].level = "turn" THEN "turn" ELSE "connect")
            /\ oplog[i].n = mcp.retry_delay * (2 ^ (oplog[i - 1].n - 1))
    /\ Doubling(Sleeps("turn"), mcp.retry_delay)
    /\ OneLoop => Doubling(Sleeps("connect"), mcp.retry_delay)

C14_Witness ==
    /\ Done("invoke") /\ mcp.retry_delay = 2
    /\ Sleeps("turn") = <<2, 4>>
    /\ Sleeps("connect") = <<2, 4, 2>>

\* C15: with the transport's required setting missing, the first
\* connection attempt raises an AgentExecutionError that is not an
\* MCPConnectionError; the loop neither sleeps nor tries again, the error
\* reaches the caller and the manager has no client.
C15_MissingConfigurationNotRetried ==
    ~Configured(mcp) =>
        /\ mcp.client = None
        /\ Sleeps("connect") = <<>>
        /\ mpc = "connect" => conn.attempt = 0
        /\ \A i \in 1..Len(oplog) :
             oplog[i].ev = "connect" =>
                /\ oplog[i].level = "AgentExecutionError" /\ oplog[i].n = 1
                /\ i = Len(oplog)
                /\ mpc = "idle" /\ outcome.status = "raised"
                /\ outcome.type = "AgentExecutionError"
                /\ outcome.msg \in {"gateway_url is required for streamable-http transport",
                                    "mcp_server_path is required for stdio transport"}

C15_Witness ==
    /\ ~Configured(mcp) /\ ~mcp.use_stdio /\ mcp.max_retries = 3
    /\ Done("create_client") /\ outcome.status = "raised"
    /\ outcome.msg = "gateway_url is required for streamable-http transport"
    /\ Len(Entries("connect")) = 1

\* C16: one call_tool invokes the tool at most twice and reconnects at most
\* once; a first call that fails with MCPConnectionError is followed by one
\* reconnect_all and, once that has connected, by exactly one more call on
\* the new client, whose result or error reaches the caller; a first call
\* that fails otherwise is neither retried nor followed by a reconnect.
C16_CallToolReconnectsOnceRetriesOnce ==
    LET calls == Entries("call_tool")
    IN  op.name = "call_tool" =>
          /\ Len(calls) <= 2
          /\ Len(Entries("reconnect_all")) <= 1
          /\ (Len(calls) >= 1 /\ calls[1].level = "MCPConnectionError") =>
                /\ Len(Entries("reconnect_all")) = 1
                /\ \E i \in 1..(Len(oplog) - 1) :
                     /\ oplog[i] = calls[1]
                     /\ oplog[i + 1].ev = "reconnect_all"
                /\ mpc = "retry_call_tool" => (Len(calls) = 1 /\ mcp.client # calls[1].n)
                /\ (Done("call_tool") /\ mcp.client # None) => Len(calls) = 2
                /\ (Done("call_tool") /\ mcp.client = None) =>
                      (Len(calls) = 1 /\ outcome.status = "raised" /\ outcome.type = "AgentExecutionError"
                       /\ oplog[Len(oplog)].ev = "connect")
          /\ (Len(calls) >= 1 /\ calls[1].level # "MCPConnectionError") =>
                /\ Len(calls) = 1
                /\ Entries("reconnect_all") = <<>>
                /\ Entries("connect") = <<>> \/ oplog[Len(oplog) - 1].ev = "connect"
                /\ Done("call_tool")
                /\ calls[1].level = "AgentExecutionError" =>
                      (outcome.status = "raised" /\ outcome.type = "AgentExecutionError")
          /\ Len(calls) = 2 =>
                /\ calls[2].n # calls[1].n
                /\ calls[2].n = mcp.client
                /\ calls[2].n \notin replaced
                /\ Done("call_tool")
                /\ IF calls[2].level = "data"
                   THEN outcome.status = "returned"
                   ELSE outcome.status = "raised" /\ outcome.type = calls[2].level

C16_Witness ==
    /\ Done("call_tool")
    /\ Len(Entries("call_tool")) = 2
    /\ Entries("call_tool")[1].level = "MCPConnectionError"
    /\ Entries("call_tool")[2].level = "MCPConnectionError"
    /\ Len(Entries("reconnect_all")) = 1
    /\ outcome.status = "raised" /\ outcome.type = "MCPConnectionError"

\* The failure r is a transport failure whose message has an indicator: an
\* exception raised by the client call, or an error-status result.
IndicatedFailure(r) ==
    /\ r.kind = "raises" \/ (r.kind = "dict" /\ r.status = "error" /\ r.has_content)
    /\ has_indicator(r.msg)

\* C17: a tool call that fails raises MCPConnectionError when the failure
\* is a transport failure whose message contains, in any letter case, one
\* of the connection-error indicators, whether it came as an error-status
\* result or as an exception of the client call, and a plain
\* AgentExecutionError otherwise.
C17_FailureClassifiedByMessage ==
    (Done("call_tool") /\ outcome.status = "raised" /\ outcome.result.kind # "none") =>
        IF IndicatedFailure(outcome.result)
        THEN outcome.type = "MCPConnectionError"
        ELSE outcome.type = "AgentExecutionError"

Range(list) == {list[i] : i \in 1..Len(list)}

\* The tags of a tool: those of its "_fastmcp" section, none without one.
TagSet(tool) ==
    IF tool.meta = "dict" /\ tool.fastmcp = "dict" /\ tool.has_tags
    THEN Range(tool.tags) ELSE {}

\* The filter a finished tool query applied.
EffectiveFilter ==
    IF op.name = "get_filtered_tools" /\ op.use_default THEN mcp.tool_tags ELSE op.tags

ToolQueryDone ==
    (Done("filter_tools") \/ Done("get_filtered_tools")) /\ outcome.status = "returned"

\* C18: with a non-empty filter the result is exactly the listed tools
\* whose tag set meets the filter, in the order of the list; a tool without
\* metadata, with None metadata or without a tag section is never in it,
\* and a filter that meets no tag gives the empty list.
C18_FilterKeepsIntersectingToolsInOrder ==
    (ToolQueryDone /\ EffectiveFilter # <<>>) =>
        LET res == outcome.tools
            want == {i \in 1..Len(server_tools) :
                        TagSet(server_tools[i]) \cap Range(EffectiveFilter) # {}}
        IN  /\ \A j \in 1..Len(res) : res[j] = server_tools[res[j].name]
            /\ \A j \in 1..Len(res) : \A h \in 1..Len(res) : j < h => res[j].name < res[h].name
            /\ {res[j].name : j \in 1..Len(res)} = want
            /\ \A j \in 1..Len(res) :
                 res[j].meta = "dict" /\ res[j].fastmcp = "dict" /\ res[j].has_tags
            /\ want = {} => res = <<>>

C18_Witness ==
    /\ Done("get_filtered_tools") /\ ~op.use_default /\ op.tags = <<"campaign">>
    /\ Len(server_tools) = 3
    /\ server_tools[1].tags = <<"campaign">>
    /\ server_tools[2].tags = <<"report">>
    /\ server_tools[3].tags = <<"campaign", "report">>
    /\ outcome.tools = <<server_tools[1], server_tools[3]>>

\* C19: get_filtered_tools called with an explicit empty filter list
\* returns the empty list whatever tools are listed, and so does
\* filter_tools(tools, []).
C19_EmptyFilterReturnsNothing ==
    /\ (Done("get_filtered_tools") /\ outcome.status = "returned"
        /\ ~op.use_default /\ op.tags = <<>>) => outcome.tools = <<>>
    /\ (Done("filter_tools") /\ op.tags = <<>>) => outcome.tools = <<>>

\* C20: the manager holds one client at most, never one a reconnect has
\* replaced, and a replaced client is not used again: every later tool
\* call, tool listing and turn of the manager's agent runs on the current
\* client or on tools obtained from it.
C20_ReplacedHandleNeverUsed ==
    /\ mcp.client \notin replaced
    /\ last_use.by \in {"call_tool", "list_tools"} => ~last_use.stale
    /\ (last_use.by = "turn" /\ agent.mcp_manager) => ~last_use.stale

\* C21: within one Agent.invoke the structured-result extraction runs at
\* most once, right after a turn attempt that returned without the
\* connection-failure flag, and never on an attempt that is retried: it is
\* the last step of the call.  An extraction that raises is swallowed:
\* invoke returns that attempt's raw result with a None structured result.
C21_ExtractionOnceAfterCleanTurn ==
    op.name = "invoke" =>
        /\ Len(Entries("structured_output")) <= 1
        /\ \A i \in 1..Len(oplog) :
             oplog[i].ev = "structured_output" =>
                /\ i > 1 /\ i = Len(oplog)
                /\ oplog[i - 1].ev = "turn" /\ oplog[i - 1].level = "ok"
                /\ oplog[i - 1].n = oplog[i].n
                /\ oplog[i].n = Len(Entries("turn"))
                /\ agent.structured_output_config
                /\ Done("invoke") /\ outcome.status = "returned"
                /\ outcome.response = oplog[i].n
                /\ oplog[i].level = "Exception" => outcome.structured = NoResult
                /\ oplog[i].level # "Exception" => outcome.structured = oplog[i].level

C21_Witness ==
    /\ Done("invoke") /\ outcome.status = "returned"
    /\ Len(Entries("turn")) = 2
    /\ EntriesAt("structured_output", "Exception") # <<>>
    /\ outcome.response = 2 /\ outcome.structured = NoResult

\* C22: without a manager Agent.invoke runs the turn exactly once, with no
\* sleep, reconnect, connection attempt or rebuild, and a connection
\* failure signalled during that turn reaches the caller as a plain
\* AgentExecutionError, not as an MCPConnectionError.
C22_NoManagerSingleTurnGenericFailure ==
    (Done("invoke") /\ ~agent.mcp_manager) =>
        /\ Len(Entries("turn")) = 1
        /\ Entries("sleep") = <<>> /\ Entries("reconnect_all") = <<>>
        /\ Entries("connect") = <<>> /\ Entries("rebuild") = <<>>
        /\ Entries("turn")[1].level = "mcp_connection_error" =>
              (outcome.status = "raised" /\ outcome.type = "AgentExecutionError")

\* C23: the headers factory is called anew for every network connection
\* attempt and its result is never kept: over connects, retries and
\* reconnects the factory has been called as often as network connection
\* attempts were made, and the latest attempt used the value of the latest
\* call.
C23_HeadersFactoryCalledPerAttempt ==
    (mcp.headers_factory /\ ~mcp.use_stdio) =>
        /\ headers.calls = headers.attempts
        /\ headers.used = headers.calls
        /\ Configured(mcp) => headers.attempts >= Len(Entries("connect"))
        /\ ~Configured(mcp) => headers.attempts = 0

C23_Witness ==
    /\ mcp.headers_factory /\ ~mcp.use_stdio
    /\ Done("reconnect_all")
    /\ headers.attempts = 4 /\ headers.calls = 4 /\ headers.used = 4

\* C24: once the consumer has closed the stream no further wire event is
\* produced: the step that closes it emits nothing (no RUN_ERROR, no
\* TEXT_MESSAGE_END, no RUN_FINISHED) and the emitted sequence never
\* changes afterwards.
C24_NoEventAfterClose ==
    [][(pc = "closed" \/ pc' = "closed") => (emitted' = emitted /\ pc' = "closed")]_vars

C24_Witness ==
    /\ pc = "closed"
    /\ bridge.current_message_id # None
    /\ Last.type = "TEXT_MESSAGE_CONTENT"
    /\ Positions("TEXT_MESSAGE_END") = {} /\ Positions("RUN_ERROR") = {}
    /\ Positions("RUN_FINISHED") = {}

\* MCPConnectionError is a subclass of AgentExecutionError.
IsAgentExecutionError(type) == type \in {"AgentExecutionError", "MCPConnectionError"}

\* C25: call_mcp_tool returns the tool data only when the client result is
\* a mapping with status "success" that contains structuredContent.result;
\* a non-mapping, a mapping without status, a success without
\* structuredContent.result and an exception raised by the client call all
\* raise AgentExecutionError, and whatever does not return data raises an
\* AgentExecutionError; absent arguments reach the client as the empty
\* mapping, given arguments unchanged.
C25_DataOnlyFromSuccessWithResult ==
    call.done =>
        LET r == call.result
            hasResult == r.kind = "dict" /\ r.status = "success"
                            /\ r.structured \in {"result", "result_unsized"}
        IN  /\ call.outcome.type = "data" => hasResult
            /\ call.outcome.type # "data" => IsAgentExecutionError(call.outcome.type)
            /\ (r.kind \in {"other", "raises"} \/ r.status = "missing"
                   \/ (r.status = "success" /\ ~hasResult)) =>
                  call.outcome.type = "AgentExecutionError"
            /\ (r.kind = "dict" /\ r.status = "success" /\ r.structured = "result") =>
                  call.outcome.type = "data"
            /\ call.passed.given
            /\ call.passed.keys = IF call.arguments.given THEN call.arguments.keys ELSE {}

C25_Witness ==
    /\ call.done /\ ~call.arguments.given
    /\ call.passed = Mapping({})
    /\ call.outcome.type = "data"

\* The position of the latest entry ev before position i of the log, 0 when
\* there is none.
LastBefore(ev, i) ==
    LET js == {j \in 1..(i - 1) : oplog[j].ev = ev}
    IN  IF js = {} THEN 0 ELSE CHOOSE j \in js : \A l \in js : l <= j

\* C26: in Agent.invoke a failed turn attempt other than the last is
\* followed, in this order, by the sleep of delay(attempt), reconnect_all,
\* the listing of the tools of the new client and the rebuild of the runtime,
\* and only then by the next attempt; a retried turn is about to run on the
\* runtime built last, bound to the tools of the client the latest reconnect
\* created, and every attempt sends the query invoke was called with.
C26_RetriedTurnRunsOnRebuiltRuntime ==
    op.name = "invoke" =>
        /\ \A i \in 1..Len(oplog) :
             oplog[i].ev = "turn" =>
                /\ oplog[i].query = op.query /\ op.query \in Queries
                /\ (oplog[i].level = "mcp_connection_error" /\ agent.mcp_manager
                       /\ oplog[i].n < mcp.max_retries) =>
                      /\ Len(oplog) >= i + 2
                      /\ oplog[i + 1] = Log("sleep", "turn", mcp.retry_delay * (2 ^ (oplog[i].n - 1)))
                      /\ oplog[i + 2].ev = "reconnect_all"
                /\ oplog[i].n > 1 =>
                      LET j == LastBefore("reconnect_all", i)
                      IN  /\ j >= 3 /\ i >= j + 4
                          /\ oplog[j - 2].ev = "turn" /\ oplog[j - 2].n = oplog[i].n - 1
                          /\ oplog[j - 2].level = "mcp_connection_error"
                          /\ oplog[j - 1].ev = "sleep" /\ oplog[j - 1].level = "turn"
                          /\ \A l \in (j + 1)..(i - 3) : oplog[l].ev \in {"connect", "sleep"}
                          /\ oplog[i - 3].ev = "connect" /\ oplog[i - 3].level = "ok"
                          /\ oplog[i - 2].ev = "list_tools" /\ oplog[i - 2].level = "ok"
                          /\ oplog[i - 2].n # None /\ oplog[i - 2].n > oplog[j].n
                          /\ oplog[i - 1].ev = "rebuild"
                          /\ Len(SelectSeq(SubSeq(oplog, 1, i), LAMBDA e : e.ev = "rebuild"))
                                = oplog[i].n - 1
        /\ (mpc = "turn" /\ attempt > 0) =>
              /\ Len(oplog) >= 2
              /\ oplog[Len(oplog)] = Log("rebuild", "agent", agent.instance)
              /\ Len(Entries("rebuild")) = attempt
              /\ agent.tools_handle = mcp.client /\ mcp.client = handles
              /\ agent.tools_handle \notin replaced
              /\ oplog[Len(oplog) - 1] = Log("list_tools", "ok", mcp.client)

C26_Witness ==
    /\ Done("invoke") /\ outcome.status = "returned" /\ outcome.response = 3
    /\ op.query = "query_b"
    /\ Len(Entries("turn")) = 3 /\ Entries("turn")[3].query = "query_b"
    /\ Len(EntriesAt("sleep", "connect")) >= 1
    /\ agent.instance >= 2

\* C27: reconnect_all drops the current client before its first connection
\* attempt, so no client is held while it connects; when it returns the
\* manager holds the client just created, which is not the one it had; when
\* it raises, the error is an AgentExecutionError (after max_retries failed
\* attempts the one naming the attempts) and the manager holds no client.
C27_ReconnectDropsOldClientFirst ==
    op.name = "reconnect_all" =>
        /\ oplog # <<>> /\ oplog[1] = Log("reconnect_all", "manager", conn.old)
        /\ mpc = "connect" => mcp.client = None
        /\ mpc = "idle" => outcome.status \in {"returned", "raised"}
        /\ outcome.status = "returned" =>
              /\ mcp.client # None /\ mcp.client = handles
              /\ mcp.client # conn.old /\ mcp.client \notin replaced
              /\ conn.old # None => conn.old \in replaced
        /\ outcome.status = "raised" =>
              /\ outcome.type = "AgentExecutionError"
              /\ mcp.client = None
        /\ (mcp.max_retries >= 1
               /\ Len(EntriesAt("connect", "MCPConnectionError")) = mcp.max_retries) =>
              /\ outcome.status = "raised"
              /\ outcome.msg = "Error initializing MCP client after attempts"
              /\ outcome.attempts = mcp.max_retries

C27_Witness ==
    /\ Done("reconnect_all") /\ outcome.status = "raised"
    /\ conn.old = 1 /\ mcp.client = None
    /\ mcp.max_retries = 2
    /\ Len(EntriesAt("connect", "MCPConnectionError")) = 2

\* A call of get_filtered_tools starts in this step.
ToolQueryStarts == ncalls' = ncalls + 1 /\ op'.name = "get_filtered_tools"

\* C28: get_filtered_tools (through get_tools) enters the connection loop
\* if and only if the manager holds no client when it is called, never
\* connects while a client is held, and asks list_tools_sync of the client
\* the manager holds at that moment, which no reconnect has replaced: the
\* one it just created when it had to connect, else the one a preceding
\* reconnect left; nothing is listed from an earlier client.
C28_ToolsListedFromCurrentClient ==
    /\ [](op.name = "get_filtered_tools" =>
            /\ mpc = "connect" => mcp.client = None
            /\ mpc = "list_tools" => mcp.client # None
            /\ \A i \in 1..Len(oplog) :
                 oplog[i].ev = "list_tools" =>
                    /\ i = Len(oplog) /\ mpc = "idle"
                    /\ oplog[i].n = mcp.client /\ mcp.client # None
                    /\ mcp.client \notin replaced
                    /\ last_use = [by |-> "list_tools", handle |-> mcp.client, stale |-> FALSE]
                    /\ EntriesAt("connect", "ok") # <<>> => mcp.client = handles
            /\ Len(Entries("list_tools")) <= 1
            /\ (Done("get_filtered_tools") /\ outcome.status = "returned") =>
                  Len(Entries("list_tools")) = 1)
    /\ [][ToolQueryStarts =>
            /\ (mpc' = "connect") <=> (mcp.client = None)
            /\ (mpc' = "list_tools") <=> (mcp.client # None)
            /\ mcp' = mcp /\ handles' = handles]_vars

C28_Witness ==
    /\ Done("get_filtered_tools") /\ outcome.status = "returned"
    /\ replaced = {1} /\ mcp.client = 2
    /\ oplog = <<Log("list_tools", "ok", 2)>>

(***************************************************************************)
(* Properties of one event conversion                                      *)
(***************************************************************************)
\* A tool call is open in the bridge that receives the event.
ToolOpen == conv.bridge.current_tool_call_id # None

\* The event converted is a Strands contentBlockDelta with a toolUse delta.
ArgsDeltaConverted ==
    /\ conv.kind = "strands" /\ conv.done
    /\ conv.event.is_dict /\ ~(conv.event.has_data /\ conv.event.has_delta)
    /\ conv.event.has_event /\ conv.event.block = "contentBlockDelta"
    /\ conv.event.has_toolUse

\* The one TOOL_CALL_ARGS event of the open tool call for the chunk.
ArgsEvent == Event("TOOL_CALL_ARGS", None, conv.bridge.current_tool_call_id, conv.event.payload)

\* C29 as stated: a tool-argument delta received with a tool call open
\* emits one TOOL_CALL_ARGS with the open id and its chunk and adds the chunk
\* to the buffer; with no tool call open nothing is emitted and the bridge
\* is unchanged.
C29_EveryArgsDeltaEmitsArgs ==
    ArgsDeltaConverted =>
        IF ToolOpen
        THEN /\ conv.out.events = <<ArgsEvent>>
             /\ conv.out.bridge.tool_args_buffer =
                   IF conv.event.payload = "" THEN conv.bridge.tool_args_buffer
                   ELSE Append(conv.bridge.tool_args_buffer, conv.event.payload)
        ELSE conv.out.events = <<>> /\ conv.out.bridge = conv.bridge

\* C29 (amended): a tool-argument delta with a non-empty chunk received with
\* a tool call open emits exactly one TOOL_CALL_ARGS with the open id and
\* the chunk and appends the chunk to the buffer, leaving the ids and the
\* tool name alone; with no tool call open, or with an empty chunk, nothing
\* is emitted and the bridge is unchanged.
C29_NonEmptyArgsDeltaEmitsArgs ==
    ArgsDeltaConverted =>
        /\ ~conv.out.raised /\ conv.out.used = 0
        /\ IF ToolOpen /\ conv.event.payload # ""
           THEN /\ conv.out.events = <<ArgsEvent>>
                /\ conv.out.bridge =
                      [conv.bridge EXCEPT !.tool_args_buffer = Append(@, conv.event.payload)]
           ELSE conv.out.events = <<>> /\ conv.out.bridge = conv.bridge

C29_Witness ==
    /\ ArgsDeltaConverted /\ ToolOpen
    /\ conv.bridge.tool_args_buffer = <<"x">>
    /\ conv.out.bridge.tool_args_buffer = <<"x", "x">>
    /\ conv.out.events = <<Event("TOOL_CALL_ARGS", None, 2, "x")>>

\* The event converted is a tool completion: a Strands contentBlockStop or
\* a LangChain on_tool_end with its data.
CompletionConverted ==
    /\ conv.done /\ conv.event.is_dict
    /\ \/ /\ conv.kind = "strands"
          /\ ~(conv.event.has_data /\ conv.event.has_delta)
          /\ conv.event.has_event /\ conv.event.block = "contentBlockStop"
       \/ /\ conv.kind = "langchain"
          /\ conv.event.event = "on_tool_end" /\ conv.event.has_data

\* The completion event carries a tool output.
OutputProvided == conv.kind = "langchain" /\ conv.event.payload # ""

\* C30: a tool completion received with a tool call open emits
\* TOOL_CALL_RESULT immediately followed by TOOL_CALL_END, both with the
\* open id, the content being the tool's output or, when the runtime
\* provided none, "Tool executed successfully"; afterwards the tool-call id,
\* the tool name and the argument buffer are cleared and the message id is
\* unchanged.
C30_CompletionResultOrSuccessMarker ==
    (CompletionConverted /\ ToolOpen) =>
        /\ conv.out.events =
              <<Event("TOOL_CALL_RESULT", conv.bridge.current_message_id,
                      conv.bridge.current_tool_call_id,
                      IF OutputProvided THEN conv.event.payload
                      ELSE "Tool executed successfully"),
                Event("TOOL_CALL_END", None, conv.bridge.current_tool_call_id, "")>>
        /\ conv.out.bridge = [conv.bridge EXCEPT !.current_tool_call_id = None,
                                                 !.tool_args_buffer = <<>>,
                                                 !.tool_name = NoResult]

\* C31: while a client is created only MCPClientInitializationError is
\* turned into the retryable MCPConnectionError; any other exception becomes
\* an AgentExecutionError, and an attempt that ends in AgentExecutionError is
\* the last step of the connection loop: no sleep and no attempt follow it,
\* the call raises that error and the manager holds no client.
C31_OnlyInitializationFailureRetried ==
    /\ \A env \in ConnectOutcomes :
         /\ setup_mcp_client(env).type = "MCPConnectionError"
               <=> env = "MCPClientInitializationError"
         /\ env \notin {"ok", "MCPClientInitializationError"}
               => setup_mcp_client(env).type = "AgentExecutionError"
    /\ \A i \in 1..Len(oplog) :
         (oplog[i].ev = "connect" /\ oplog[i].level = "AgentExecutionError") =>
            /\ i = Len(oplog) /\ mpc = "idle"
            /\ outcome.status = "raised" /\ outcome.type = "AgentExecutionError"
            /\ outcome.attempts = 0
            /\ mcp.client = None
    /\ \A i \in 1..Len(oplog) :
         (oplog[i].ev = "sleep" /\ oplog[i].level = "connect") =>
            /\ i > 1 /\ oplog[i - 1].ev = "connect"
            /\ oplog[i - 1].level = "MCPConnectionError"

C31_Witness ==
    /\ Done("create_client") /\ Configured(mcp) /\ mcp.max_retries = 3
    /\ outcome.status = "raised" /\ outcome.msg = "Error initializing MCP client"
    /\ oplog = <<Log("connect", "MCPConnectionError", 1), Log("sleep", "connect", 1),
                 Log("connect", "AgentExecutionError", 2)>>

ReconnectFailed ==
    /\ oplog # <<>>
    /\ \/ oplog[Len(oplog)].ev = "connect" /\ oplog[Len(oplog)].level # "ok"
       \/ oplog[Len(oplog)].ev = "list_tools" /\ oplog[Len(oplog)].level = "Exception"

\* C33: when reconnect_all or the listing of the fresh tools raises inside
\* the retry loop of Agent.invoke, invoke raises at once although attempts
\* remain: no turn attempt follows, and from the failed turn to the raise
\* the runtime instance and the client its tools are bound to stay what they
\* were (the runtime is not rebuilt).
C33_ReconnectFailurePropagates ==
    /\ [](op.name = "invoke" /\ mpc = "idle" /\ ReconnectFailed =>
            /\ outcome.status = "raised"
            /\ outcome.type \in {"AgentExecutionError", "Exception"}
            /\ Len(Entries("turn")) < mcp.max_retries
            /\ Len(Entries("rebuild")) = Len(Entries("turn")) - 1
            /\ (oplog[Len(oplog)].ev = "connect" => mcp.client = None))
    /\ [][(/\ op.name = "invoke"
           /\ \/ mpc = "turn" /\ mpc' = "connect"
              \/ mpc = "connect" /\ mpc' \in {"connect", "idle"}
              \/ mpc = "recreate_agent" /\ mpc' = "idle") =>
              /\ agent'.instance = agent.instance
              /\ agent'.tools_handle = agent.tools_handle
              /\ attempt' = attempt]_vars

C33_Witness ==
    /\ Done("invoke") /\ outcome.status = "raised" /\ mcp.max_retries = 3
    /\ outcome.msg = "Error initializing MCP client after attempts"
    /\ Len(Entries("turn")) = 1 /\ Len(Entries("connect")) = 3
    /\ agent.instance = 0 /\ agent.tools_handle = 1 /\ mcp.client = None

\* The tool invocations of the attempt whose result carries an indicator.
IndicatorResults == {i \in 1..Len(inv.run.results) : detect_mcp_error(inv.run.results[i])}

C35_FlagStickyWithinAttempt ==
    inv.done /\ ~inv.run.raises /\ IndicatorResults # {} =>
        /\ inv.out.flag /\ agent.mcp_connection_error
        /\ inv.out.type = "MCPConnectionError"

C35_Witness ==
    /\ inv.done /\ ~inv.run.raises /\ ~inv.flag
    /\ IndicatorResults = {1} /\ Len(inv.run.results) = 2
    /\ inv.run.results[2] = <<"tool", "not", "found">>
    /\ inv.out.type = "MCPConnectionError"

\* C36: Agent.stream_with_agui_bridge has no turn-level resilience: no step
\* of a streamed turn sleeps, calls reconnect_all or rebuilds the runtime,
\* and a streamed turn in which no exception was raised but a tool
\* invocation set the flag still ends with TEXT_MESSAGE_END and RUN_FINISHED
\* and emits no RUN_ERROR.
C36_StreamIgnoresConnectionFlag ==
    /\ [](kind = "strands" /\ pc = "done" /\ ~raised /\ agent.mcp_connection_error =>
            /\ Len(emitted) >= 2
            /\ emitted[Len(emitted)].type = "RUN_FINISHED"
            /\ emitted[Len(emitted) - 1].type = "TEXT_MESSAGE_END"
            /\ Positions("RUN_ERROR") = {})
    /\ [][kind = "strands" =>
            /\ oplog' = oplog /\ mcp' = mcp /\ handles' = handles
            /\ agent'.instance = agent.instance
            /\ agent'.tools_handle = agent.tools_handle]_vars

C36_Witness ==
    /\ kind = "strands" /\ pc = "done" /\ ~raised /\ agent.mcp_connection_error
    /\ Last.type = "RUN_FINISHED" /\ oplog = <<>>

\* C37: with max_retries <= 0 no attempt is made.  Agent.invoke on an agent
\* with a manager raises AgentExecutionError without running a turn, and
\* create_client and reconnect_all raise AgentExecutionError without an
\* attempt to connect; no client handle is live and nothing sleeps.
C37_NoAttemptWithoutRetries ==
    mcp.max_retries <= 0 =>
        /\ mcp.client = None /\ handles = 0
        /\ Entries("sleep") = <<>> /\ Entries("connect") = <<>>
        /\ (op.name = "invoke" /\ agent.mcp_manager) =>
              /\ mpc = "idle" /\ oplog = <<>>
              /\ outcome.status = "raised" /\ outcome.type = "AgentExecutionError"
        /\ (Done("create_client") \/ Done("reconnect_all")) =>
              /\ outcome.status = "raised" /\ outcome.type = "AgentExecutionError"
              /\ Entries("turn") = <<>>

C37_Witness ==
    /\ mcp.max_retries <= 0
    /\ Done("invoke") /\ agent.mcp_manager
    /\ outcome.status = "raised" /\ outcome.type = "AgentExecutionError"
    /\ oplog = <<>> /\ mcp.client = None

\* The work one Agent.invoke has done so far stays within the budget of n
\* attempts.
WithinBudget(n) ==
    /\ Len(Entries("turn")) <= n
    /\ Len(Entries("reconnect_all")) <= n - 1
    /\ Len(EntriesAt("sleep", "turn")) <= n - 1
    /\ Len(Entries("connect")) <= n * (n - 1)
    /\ Len(EntriesAt("sleep", "connect")) <= (n - 1) * (n - 1)

\* Every Agent.invoke that was started returns or raises.
InvokeTerminates ==
    (op.name = "invoke" /\ mpc # "idle") ~>
        (op.name = "invoke" /\ mpc = "idle" /\ outcome.status \in {"returned", "raised"})

\* C38 (as stated): Agent.invoke terminates, and for max_retries = N it runs
\* at most N turn attempts, N - 1 reconnect_all calls, N - 1 turn-level
\* sleeps, N * (N - 1) connection attempts and (N - 1) * (N - 1)
\* connection-level sleeps.
C38_InvokeWithinBudget ==
    /\ [](op.name = "invoke" /\ agent.mcp_manager => WithinBudget(mcp.max_retries))
    /\ InvokeTerminates

\* C38 (amended): Agent.invoke terminates; for max_retries = N >= 1 it stays
\* within N turn attempts, N - 1 reconnect_all calls, N - 1 turn-level
\* sleeps, N * (N - 1) connection attempts and (N - 1) * (N - 1)
\* connection-level sleeps, and for N <= 0 it does none of these.
C38_InvokeWithinBudgetFromOne ==
    /\ [](op.name = "invoke" /\ agent.mcp_manager =>
              IF mcp.max_retries >= 1 THEN WithinBudget(mcp.max_retries) ELSE oplog = <<>>)
    /\ InvokeTerminates

C38_Witness ==
    /\ Done("invoke") /\ agent.mcp_manager /\ mcp.max_retries = 3
    /\ outcome.status = "raised"
    /\ Len(Entries("turn")) = 3 /\ Len(Entries("reconnect_all")) = 2
    /\ Len(EntriesAt("sleep", "turn")) = 2
    /\ Len(Entries("connect")) = 6 /\ Len(EntriesAt("sleep", "connect")) = 4

\* The texts the converted event carries as text deltas: the data of a
\* Strands text event, the string content of a LangChain chunk, or the
\* non-empty texts of the text blocks of its list content.
TextDeltas ==
    LET e == conv.event
    IN  IF ~e.is_dict THEN <<>>
        ELSE IF conv.kind = "strands"
            THEN IF e.has_data /\ e.has_delta THEN <<e.payload>> ELSE <<>>
        ELSE IF e.event = "on_chat_model_stream" /\ e.has_data
            THEN IF e.content_kind = "str" /\ e.text # "" THEN <<e.text>>
                 ELSE IF e.content_kind = "list"
                     THEN LET texts == SelectSeq(e.blocks,
                                 LAMBDA bl : bl.is_dict /\ bl.type = "text" /\ bl.text # "")
                          IN  [i \in 1..Len(texts) |-> texts[i].text]
                     ELSE <<>>
        ELSE <<>>

\* The converted event is none the bridge recognises: it is no mapping, or it
\* carries neither text nor a tool marker.
Unrecognised ==
    LET e == conv.event
    IN  \/ ~e.is_dict
        \/ /\ conv.kind = "strands"
           /\ ~(e.has_data /\ e.has_delta)
           /\ ~e.has_event \/ e.block \notin {"contentBlockStart", "contentBlockDelta", "contentBlockStop"}
        \/ /\ conv.kind = "langchain"
           /\ e.event \notin {"on_chat_model_stream", "on_tool_start", "on_tool_end"}

\* C39: a text delta converted while a tool call is open gives exactly one
\* TEXT_MESSAGE_CONTENT with the open message id and leaves the tool-call
\* id, the tool name and the argument buffer as they were; an event that is
\* not recognised is converted to nothing and leaves the bridge as it was.
C39_TextKeepsToolCallAndUnknownIgnored ==
    conv.done =>
        /\ (ToolOpen /\ TextDeltas # <<>>) =>
              /\ ~conv.out.raised
              /\ conv.out.events =
                    [i \in 1..Len(TextDeltas) |->
                        Event("TEXT_MESSAGE_CONTENT", conv.bridge.current_message_id, None, TextDeltas[i])]
              /\ conv.out.bridge = conv.bridge
        /\ Unrecognised =>
              /\ ~conv.out.raised
              /\ conv.out.events = <<>>
              /\ conv.out.bridge = conv.bridge

====
